---- MODULE Spec2Model ----
(***************************************************************************)
(* KPI analytics engine and status classifier of the dashboard             *)
(* (data_loader.py, components.py, callbacks.py).                          *)
(*                                                                         *)
(* Numbers.  Sample values and thresholds are kept as integers in units of *)
(* one hundredth of the metric's unit (28.0 kWh is 2800, an OEE of 0.70 is *)
(* 70).  Quantities that involve a square root (z-scores, Pearson r) are   *)
(* kept exactly as  num / sqrt(rad)  with integer num and rad; a value     *)
(* that numpy/pandas report as NaN carries nan = TRUE, and every           *)
(* comparison with it is FALSE, as for an IEEE NaN.  The statistics, the   *)
(* trend and the forecast are kept as fractions in lowest terms and as     *)
(* q + c sqrt(v).  Rounding of binary floating point is not modelled:      *)
(* arithmetic is exact.  Library calls follow current numpy, scipy, pandas *)
(* and scikit-learn.                                                       *)
(***************************************************************************)
EXTENDS Integers, Sequences, FiniteSets, TLC

VARIABLES kpi_keys, kpi_thresholds, kpi_data, op, status_ret, ret, props, pending, session
vars == <<kpi_keys, kpi_thresholds, kpi_data, op, status_ret, ret, props, pending, session>>

\* The variables of the server (the data layer and the sessions of the
\* clients) and those of the page.
data_layer == <<kpi_keys, kpi_thresholds, kpi_data, op, status_ret, ret, session>>

page == <<props, pending>>

(***************************************************************************)
(* Bounds of the model.                                                    *)
(***************************************************************************)
\* Days in the dashboard's store (constants.KPI_DAYS is 30).
KPI_DAYS == 2
\* Longest series given to the single-series analytics functions.
MaxLen == 4
\* Largest sample of those series.
MaxVal == 2
\* Length of the series of the correlation stores.
CorrLen == 4

(***************************************************************************)
(* constants.py                                                            *)
(***************************************************************************)
\* KPI_LABELS.keys(), in the dict's order.
KPI_KEYS == <<"energy_spend", "carbon_intensity", "oee", "compressed_air", "water_usage">>

KPI_LABELS ==
  [energy_spend |-> "Energy Spend", carbon_intensity |-> "Carbon Intensity",
   oee |-> "OEE", compressed_air |-> "Compressed Air", water_usage |-> "Water Usage"]

\* KPI_UNITS (the source writes the 2 and the 3 as sub- and superscripts).
KPI_UNITS ==
  [energy_spend |-> "kWh", carbon_intensity |-> "kgCO2/kWh", oee |-> "%",
   compressed_air |-> "Nm3", water_usage |-> "m3"]

\* In hundredths of the unit.
KPI_THRESHOLDS ==
  [energy_spend     |-> [warning |-> 2800, critical |-> 3200],
   carbon_intensity |-> [warning |-> 35,   critical |-> 40],
   oee              |-> [warning |-> 70,   critical |-> 65],
   compressed_air   |-> [warning |-> 7000, critical |-> 8000],
   water_usage      |-> [warning |-> 1100, critical |-> 1300]]

KpiSet == {KPI_KEYS[i] : i \in 1..Len(KPI_KEYS)}

\* enumerate(KPI_LABELS.keys()): the place of a key, from 1 (0: not a key).
KeyPos(k) ==
  IF k \in KpiSet THEN CHOOSE i \in 1..Len(KPI_KEYS) : KPI_KEYS[i] = k ELSE 0

\* A metric of the store that KPI_THRESHOLDS does not configure.
UnconfiguredKeys == {"air_quality"}

StoreKeys == KpiSet \cup UnconfiguredKeys

None == [none |-> TRUE]

\* An exception raised by a call, and a value a call returns.
Raise(exception) == [error |-> exception]

Return(value) == [value |-> value]

Raised(result) == "error" \in DOMAIN result

(***************************************************************************)
(* Python and numpy helpers                                                *)
(***************************************************************************)
\* seq[idx] with Python's 0-based and negative indices.
PyIndex(seq, idx) == IF idx < 0 THEN seq[Len(seq) + idx + 1] ELSE seq[idx + 1]

Abs(x) == IF x < 0 THEN -x ELSE x

RECURSIVE Sum(_)
Sum(s) == IF s = <<>> THEN 0 ELSE Head(s) + Sum(Tail(s))

\* np.arange(1, n + 1)
Arange1(n) == [i \in 1..n |-> i]

(***************************************************************************)
(* data_loader.calculate_kpi_status                                        *)
(***************************************************************************)
calculate_kpi_status_nonstrict(store, kpi_key, day_idx) ==
  IF kpi_key \notin DOMAIN kpi_thresholds THEN "normal"
  ELSE LET value == PyIndex(store[kpi_key], day_idx)
           thresholds == kpi_thresholds[kpi_key]
       IN IF kpi_key = "oee"
          THEN IF value <= thresholds.critical THEN "critical"
               ELSE IF value <= thresholds.warning THEN "warning"
               ELSE "normal"
          ELSE IF value >= thresholds.critical THEN "critical"
               ELSE IF value >= thresholds.warning THEN "warning"
               ELSE "normal"

calculate_kpi_status_no_inverse(store, kpi_key, day_idx) ==
  IF kpi_key \notin DOMAIN kpi_thresholds THEN "normal"
  ELSE LET value == PyIndex(store[kpi_key], day_idx)
           thresholds == kpi_thresholds[kpi_key]
       IN IF value > thresholds.critical THEN "critical"
          ELSE IF value > thresholds.warning THEN "warning"
          ELSE "normal"

calculate_kpi_status_no_default(store, kpi_key, day_idx) ==
  LET value == PyIndex(store[kpi_key], day_idx)
      thresholds == IF kpi_key \in DOMAIN kpi_thresholds
                    THEN kpi_thresholds[kpi_key]
                    ELSE kpi_thresholds["energy_spend"]
  IN IF kpi_key = "oee"
     THEN IF value < thresholds.critical THEN "critical"
          ELSE IF value < thresholds.warning THEN "warning"
          ELSE "normal"
     ELSE IF value > thresholds.critical THEN "critical"
          ELSE IF value > thresholds.warning THEN "warning"
          ELSE "normal"

calculate_kpi_status(store, kpi_key, day_idx) ==
  IF kpi_key \notin DOMAIN kpi_thresholds THEN "normal"
  ELSE LET value == PyIndex(store[kpi_key], day_idx)
           thresholds == kpi_thresholds[kpi_key]
       IN IF kpi_key = "oee"
          THEN IF value < thresholds.critical THEN "critical"
               ELSE IF value < thresholds.warning THEN "warning"
               ELSE "normal"
          ELSE IF value > thresholds.critical THEN "critical"
               ELSE IF value > thresholds.warning THEN "warning"
               ELSE "normal"

\* data_loader.get_kpi_thresholds
get_kpi_thresholds(kpi_key) ==
  IF kpi_key \in DOMAIN kpi_thresholds THEN kpi_thresholds[kpi_key] ELSE None

(***************************************************************************)
(* data_loader exports.  Each returns the exported content together with   *)
(* the store as the call leaves it (numpy's  a * 100  builds a new array). *)
(* File names and time stamps are left out.                                *)
(***************************************************************************)
\* kpi_data[kpi_key] * 100 on a whole series
Times100(series) == [i \in DOMAIN series |-> series[i] * 100]

export_kpi_data_to_csv_inplace(store, days) ==
  [content |-> [Day |-> days] @@
               [k \in KpiSet |-> IF k = "oee" THEN Times100(store[k]) ELSE store[k]],
   kpi_data |-> [store EXCEPT !["oee"] = Times100(store["oee"])]]

export_kpi_data_to_csv(store, days) ==
  [content |-> [Day |-> days] @@
               [k \in KpiSet |-> IF k = "oee" THEN Times100(store[k]) ELSE store[k]],
   kpi_data |-> store]

export_kpi_data_to_json(store, days) ==
  [content |->
     [kpi_data |->
        [d \in DOMAIN days |->
           [day |-> days[d]] @@
           [k \in KpiSet |->
              [label |-> KPI_LABELS[k],
               value |-> IF k = "oee" THEN PyIndex(store[k], d - 1) * 100
                         ELSE PyIndex(store[k], d - 1),
               unit |-> KPI_UNITS[k]]]],
      kpi_metadata |->
        [k \in KpiSet |-> [label |-> KPI_LABELS[k], unit |-> KPI_UNITS[k],
                           thresholds |-> get_kpi_thresholds(k)]]],
   kpi_data |-> store]

export_kpi_status_to_json_fraction(store, day_idx) ==
  [content |->
     [kpi_status |->
        [k \in KpiSet |->
           [label |-> KPI_LABELS[k],
            value |-> PyIndex(store[k], day_idx),
            unit |-> KPI_UNITS[k],
            status |-> calculate_kpi_status(store, k, day_idx),
            thresholds |-> get_kpi_thresholds(k)]]],
   kpi_data |-> store]

export_kpi_status_to_json(store, day_idx) ==
  [content |->
     [kpi_status |->
        [k \in KpiSet |->
           [label |-> KPI_LABELS[k],
            value |-> IF k = "oee" THEN PyIndex(store[k], day_idx) * 100
                      ELSE PyIndex(store[k], day_idx),
            unit |-> KPI_UNITS[k],
            status |-> calculate_kpi_status(store, k, day_idx),
            thresholds |-> get_kpi_thresholds(k)]]],
   kpi_data |-> store]

(***************************************************************************)
(* Numbers as text.  json.dumps and DataFrame.to_csv write a float as its  *)
(* shortest decimal form (70.0, 28.5, 0.35); json.loads reads it back.  A  *)
(* value of v hundredths is written as a sign, the digits before the point *)
(* and the one or two digits after it.                                     *)
(***************************************************************************)
RECURSIVE Digits(_)
Digits(n) == IF n < 10 THEN <<n>> ELSE Append(Digits(n \div 10), n % 10)

RECURSIVE FromDigits(_)
FromDigits(ds) ==
  IF ds = <<>> THEN 0 ELSE 10 * FromDigits(SubSeq(ds, 1, Len(ds) - 1)) + ds[Len(ds)]

FloatRepr(v) ==
  [neg |-> v < 0,
   int |-> Digits(Abs(v) \div 100),
   frac |-> IF Abs(v) % 10 = 0 THEN <<(Abs(v) % 100) \div 10>>
            ELSE <<(Abs(v) % 100) \div 10, Abs(v) % 10>>]

ParseFloat(text) ==
  (IF text.neg THEN -1 ELSE 1) *
    (100 * FromDigits(text.int) + 10 * text.frac[1]
       + (IF Len(text.frac) > 1 THEN text.frac[2] ELSE 0))

\* json.dumps / json.loads of the status export: the "value" entries.
JsonDumpsStatus(status_data) ==
  [kpi_status |->
     [k \in DOMAIN status_data.kpi_status |->
        [status_data.kpi_status[k] EXCEPT !.value = FloatRepr(@)]]]

JsonLoadsStatus(json_data) ==
  [kpi_status |->
     [k \in DOMAIN json_data.kpi_status |->
        [json_data.kpi_status[k] EXCEPT !.value = ParseFloat(@)]]]

\* json.dumps of the series export
JsonDumpsSeries(json_data) ==
  [json_data EXCEPT !.kpi_data =
     [d \in DOMAIN @ |->
        [f \in DOMAIN @[d] |->
           IF f = "day" THEN @[d][f] ELSE [@[d][f] EXCEPT !.value = FloatRepr(@)]]]]

\* df.to_csv(index=False) of the series export: one column per metric
SeriesToCsv(df_data) ==
  [c \in DOMAIN df_data |->
     IF c = "Day" THEN df_data[c] ELSE [d \in DOMAIN df_data[c] |-> FloatRepr(df_data[c][d])]]

(***************************************************************************)
(* callbacks.export_data: the download and the button text, with the store *)
(* as the call leaves it.  export_options is the set of ticked boxes (an   *)
(* empty set for none as for None).                                        *)
(***************************************************************************)
no_update == [no_update |-> TRUE]

\* The rows the status CSV is built from, one per entry of the status JSON.
StatusCsvRows(status_data) ==
  [n \in DOMAIN KPI_KEYS |->
     [KPI    |-> status_data.kpi_status[KPI_KEYS[n]].label,
      Value  |-> FloatRepr(status_data.kpi_status[KPI_KEYS[n]].value),
      Unit   |-> status_data.kpi_status[KPI_KEYS[n]].unit,
      Status |-> status_data.kpi_status[KPI_KEYS[n]].status]]

ExportOutputs(download, btn_text, store) ==
  [download |-> download, btn_text |-> btn_text, kpi_data |-> store]

\* The export functions raise KeyError on a store that lacks a metric of
\* KPI_LABELS.
ExportRaises(store) == ~(KpiSet \subseteq DOMAIN store)

\* A variant that offers the download of the error text when the export
\* raises.
export_data_partial(confirm_clicks, export_format, export_options, store, days_) ==
  IF confirm_clicks = 0 \/ export_options = {}
  THEN ExportOutputs(no_update, no_update, store)
  ELSE IF export_format \in {"csv", "json"}
          /\ export_options \cap {"kpi_data", "kpi_status"} # {}
          /\ ExportRaises(store)
  THEN ExportOutputs(Raise("KeyError"), "Export Failed", store)
  ELSE IF export_format = "csv" /\ "kpi_data" \in export_options
  THEN ExportOutputs(SeriesToCsv(export_kpi_data_to_csv(store, days_).content),
                     "CSV Export Complete!",
                     export_kpi_data_to_csv(store, days_).kpi_data)
  ELSE IF export_format = "csv" /\ "kpi_status" \in export_options
  THEN ExportOutputs(
         StatusCsvRows(JsonLoadsStatus(JsonDumpsStatus(
                         export_kpi_status_to_json(store, -1).content))),
         "CSV Export Complete!",
         export_kpi_status_to_json(store, -1).kpi_data)
  ELSE IF export_format = "json" /\ "kpi_data" \in export_options
  THEN ExportOutputs(JsonDumpsSeries(export_kpi_data_to_json(store, days_).content),
                     "JSON Export Complete!",
                     export_kpi_data_to_json(store, days_).kpi_data)
  ELSE IF export_format = "json" /\ "kpi_status" \in export_options
  THEN ExportOutputs(JsonDumpsStatus(export_kpi_status_to_json(store, -1).content),
                     "JSON Export Complete!",
                     export_kpi_status_to_json(store, -1).kpi_data)
  ELSE ExportOutputs(no_update, "No data selected", store)

export_data(confirm_clicks, export_format, export_options, store, days_) ==
  IF confirm_clicks = 0 \/ export_options = {}
  THEN ExportOutputs(no_update, no_update, store)
  ELSE IF export_format \in {"csv", "json"}
          /\ export_options \cap {"kpi_data", "kpi_status"} # {}
          /\ ExportRaises(store)
  THEN ExportOutputs(no_update, "Export Failed", store)
  ELSE IF export_format = "csv" /\ "kpi_data" \in export_options
  THEN ExportOutputs(SeriesToCsv(export_kpi_data_to_csv(store, days_).content),
                     "CSV Export Complete!",
                     export_kpi_data_to_csv(store, days_).kpi_data)
  ELSE IF export_format = "csv" /\ "kpi_status" \in export_options
  THEN ExportOutputs(
         StatusCsvRows(JsonLoadsStatus(JsonDumpsStatus(
                         export_kpi_status_to_json(store, -1).content))),
         "CSV Export Complete!",
         export_kpi_status_to_json(store, -1).kpi_data)
  ELSE IF export_format = "json" /\ "kpi_data" \in export_options
  THEN ExportOutputs(JsonDumpsSeries(export_kpi_data_to_json(store, days_).content),
                     "JSON Export Complete!",
                     export_kpi_data_to_json(store, days_).kpi_data)
  ELSE IF export_format = "json" /\ "kpi_status" \in export_options
  THEN ExportOutputs(JsonDumpsStatus(export_kpi_status_to_json(store, -1).content),
                     "JSON Export Complete!",
                     export_kpi_status_to_json(store, -1).kpi_data)
  ELSE ExportOutputs(no_update, "No data selected", store)

(***************************************************************************)
(* data_loader.create_shareable_view_state.  with_kpi_data is FALSE for a  *)
(* call without kpi_data (None).                                           *)
(***************************************************************************)
create_shareable_view_state(active_view, selected_assets, with_kpi_data, store, day_idx) ==
  [active_view |-> active_view,
   selected_assets |-> selected_assets,
   kpi_snapshot |->
     IF ~with_kpi_data THEN None
     ELSE [k \in KpiSet |->
             [label |-> KPI_LABELS[k],
              value |-> FloatRepr(IF k = "oee" THEN PyIndex(store[k], day_idx) * 100
                                  ELSE PyIndex(store[k], day_idx)),
              unit |-> KPI_UNITS[k],
              status |-> calculate_kpi_status(store, k, day_idx)]]]

(***************************************************************************)
(* callbacks.update_kpi_cards / update_kpi_cards_on_hover: the status of   *)
(* every card at the chosen index (the value text is display formatting).  *)
(***************************************************************************)
KpiCards(store, idx) ==
  [k \in KpiSet |-> [idx |-> idx, status |-> calculate_kpi_status(store, k, idx)]]

\* The index the hover callback reads: day - 1 for a hovered day 1..30, else -1.
HoverIdx(trend_hover) ==
  IF trend_hover # None /\ 1 <= trend_hover.x /\ trend_hover.x <= KPI_DAYS
  THEN trend_hover.x - 1
  ELSE -1

make_trend_figure_inplace(selected_kpi, store, days_) ==
  IF selected_kpi \notin DOMAIN store
  THEN [figure |-> Raise("KeyError"), kpi_data |-> store]
  ELSE [figure |-> [x |-> days_,
                    y |-> IF selected_kpi = "oee" THEN Times100(store[selected_kpi])
                          ELSE store[selected_kpi]],
        kpi_data |-> IF selected_kpi = "oee"
                     THEN [store EXCEPT ![selected_kpi] = Times100(store[selected_kpi])]
                     ELSE store]

\* callbacks.make_trend_figure: the x and y values plotted, and the store as
\* the call leaves it (y = y * 100 rebinds y to a new array).
make_trend_figure(selected_kpi, store, days_) ==
  IF selected_kpi \notin DOMAIN store
  THEN [figure |-> Raise("KeyError"), kpi_data |-> store]
  ELSE [figure |-> [x |-> days_,
                    y |-> IF selected_kpi = "oee" THEN Times100(store[selected_kpi])
                          ELSE store[selected_kpi]],
        kpi_data |-> store]

(***************************************************************************)
(* Exact numbers.  A root value  num / sqrt(rad)  (rad > 0) or NaN; a      *)
(* ratio  num / den  (den > 0).                                            *)
(***************************************************************************)
NaN == [nan |-> TRUE, num |-> 0, rad |-> 1]

Root(num, rad) == [nan |-> FALSE, num |-> num, rad |-> rad]

Ratio(num, den) == [num |-> num, den |-> den]

\* a > b for a root value a and a ratio b, as floats compare: FALSE on NaN.
RootGe(a, b) ==
  /\ ~a.nan
  /\ IF a.num >= 0 /\ b.num < 0 THEN TRUE
     ELSE IF a.num < 0 /\ b.num >= 0 THEN FALSE
     ELSE IF a.num >= 0 THEN a.num * a.num * b.den * b.den >= b.num * b.num * a.rad
     ELSE a.num * a.num * b.den * b.den <= b.num * b.num * a.rad

RootGt(a, b) ==
  /\ ~a.nan
  /\ IF a.num >= 0 /\ b.num < 0 THEN TRUE
     ELSE IF a.num < 0 /\ b.num >= 0 THEN FALSE
     ELSE IF a.num >= 0 THEN a.num * a.num * b.den * b.den > b.num * b.num * a.rad
     ELSE a.num * a.num * b.den * b.den < b.num * b.num * a.rad

\* a == b for two root values, as floats compare: FALSE when either is NaN.
RootEq(a, b) ==
  /\ ~a.nan /\ ~b.nan
  /\ (a.num >= 0) = (b.num >= 0)
  /\ a.num * a.num * b.rad = b.num * b.num * a.rad

\* np.abs on one value (NaN stays NaN)
NpAbs(a) == [a EXCEPT !.num = Abs(@)]

Squares(data) == [i \in DOMAIN data |-> data[i] * data[i]]

\* N^2 times the population variance of data: N * sum(x^2) - sum(x)^2
VarN2(data) == Len(data) * Sum(Squares(data)) - Sum(data) * Sum(data)

(***************************************************************************)
(* scipy.stats.zscore(data), ddof = 0:  (x - mean) / std  with the         *)
(* population standard deviation; NaN for every sample of a constant       *)
(* series.  (x - S/N) / sqrt(VarN2 / N^2)  =  (N x - S) / sqrt(VarN2).     *)
(***************************************************************************)
zscore_zero_when_constant(data) ==
  [i \in DOMAIN data |->
     IF VarN2(data) = 0 THEN Root(0, 1)
     ELSE Root(Len(data) * data[i] - Sum(data), VarN2(data))]

zscore(data) ==
  [i \in DOMAIN data |->
     IF VarN2(data) = 0 THEN NaN
     ELSE Root(Len(data) * data[i] - Sum(data), VarN2(data))]

\* np.where(flags)[0]: the 0-based indices of the TRUE entries, ascending.
NpWhere(flags) ==
  SelectSeq([i \in DOMAIN flags |-> i - 1], LAMBDA j : flags[j + 1])

\* a[indices] for a sequence of 0-based indices
Take(a, indices) == [j \in DOMAIN indices |-> a[indices[j] + 1]]

(***************************************************************************)
(* data_loader.detect_anomalies                                            *)
(***************************************************************************)
detect_anomalies_nonstrict(store, kpi_key, threshold) ==
  LET data == store[kpi_key]
      z_scores == [i \in DOMAIN data |-> NpAbs(zscore(data)[i])]
      anomalies == [i \in DOMAIN data |-> RootGe(z_scores[i], threshold)]
      anomaly_indices == NpWhere(anomalies)
  IN [days |-> Take(Arange1(Len(data)), anomaly_indices),
      values |-> Take(data, anomaly_indices),
      z_scores |-> Take(z_scores, anomaly_indices),
      threshold |-> threshold,
      total_anomalies |-> Len(anomaly_indices),
      anomaly_rate |-> Ratio(Len(anomaly_indices), Len(data))]

\* data = kpi_data[kpi_key] raises KeyError for a key the store does not hold.
detect_anomalies(store, kpi_key, threshold) ==
  IF kpi_key \notin DOMAIN store THEN Raise("KeyError")
  ELSE
  LET data == store[kpi_key]
      days_ == Arange1(Len(data))
      z_scores == [i \in DOMAIN data |-> NpAbs(zscore(data)[i])]
      anomalies == [i \in DOMAIN data |-> RootGt(z_scores[i], threshold)]
      anomaly_indices == NpWhere(anomalies)
  IN [days |-> Take(days_, anomaly_indices),
      values |-> Take(data, anomaly_indices),
      z_scores |-> Take(z_scores, anomaly_indices),
      threshold |-> threshold,
      total_anomalies |-> Len(anomaly_indices),
      anomaly_rate |-> Ratio(Len(anomaly_indices), Len(data))]

(***************************************************************************)
(* pandas DataFrame.corr(): Pearson r of two columns,                      *)
(*   (N sum(xy) - sum(x) sum(y)) / sqrt(VarN2(x) VarN2(y)),                *)
(* NaN when either column is constant.                                     *)
(***************************************************************************)
Products(x, y) == [i \in DOMAIN x |-> x[i] * y[i]]

CovN2(x, y) == Len(x) * Sum(Products(x, y)) - Sum(x) * Sum(y)

\* r from the covariance and the two variances (each times N^2)
PearsonOf(cov, varx, vary) ==
  IF varx * vary = 0 THEN NaN ELSE Root(cov, varx * vary)

pearson(x, y) == PearsonOf(CovN2(x, y), VarN2(x), VarN2(y))

(***************************************************************************)
(* data_loader.perform_correlation_analysis.  columns is the order of the  *)
(* store's keys (the DataFrame's columns); the matrix is read by position  *)
(* (iloc) while the result is keyed by KPI_LABELS.                         *)
(***************************************************************************)
perform_correlation_analysis(store, columns) ==
  LET correlation_matrix ==
        [i \in DOMAIN columns |->
           [j \in DOMAIN columns |-> pearson(store[columns[i]], store[columns[j]])]]
  IN [kpi1 \in KpiSet |->
        [kpi2 \in KpiSet |-> correlation_matrix[KeyPos(kpi1)][KeyPos(kpi2)]]]

(***************************************************************************)
(* components.build_combined_analytics_view: the anomaly summary and the   *)
(* "Key Correlations" rows.                                                *)
(***************************************************************************)
\* The (i, j) the two nested loops over KPI_LABELS visit with i < j, in order.
RECURSIVE PairsFrom(_, _, _)
PairsFrom(i, j, n) ==
  IF i > n THEN <<>>
  ELSE IF j > n THEN PairsFrom(i + 1, 1, n)
  ELSE (IF i < j THEN << <<i, j>> >> ELSE <<>>) \o PairsFrom(i, j + 1, n)

\* The dict appended for a pair.
CorrelationRow(kpi1, kpi2, corr_val, strong) ==
  [kpi1 |-> KPI_LABELS[kpi1],
   kpi2 |-> KPI_LABELS[kpi2],
   correlation |-> corr_val,
   strength |-> IF strong THEN "Strong" ELSE "Moderate"]

\* abs(corr_val) > p / q
AbsGt(corr_val, p, q) == RootGt(NpAbs(corr_val), Ratio(p, q))

AbsGe(corr_val, p, q) == RootGe(NpAbs(corr_val), Ratio(p, q))

StrongCorrelationsNonstrict(corr_data) ==
  LET reported == SelectSeq(PairsFrom(1, 1, Len(KPI_KEYS)),
                    LAMBDA p : AbsGe(corr_data[KPI_KEYS[p[1]]][KPI_KEYS[p[2]]], 1, 2))
      row(p, corr_val) ==
        CorrelationRow(KPI_KEYS[p[1]], KPI_KEYS[p[2]], corr_val, AbsGe(corr_val, 7, 10))
  IN [n \in DOMAIN reported |->
        row(reported[n], corr_data[KPI_KEYS[reported[n][1]]][KPI_KEYS[reported[n][2]]])]

StrongCorrelations(corr_data) ==
  LET reported == SelectSeq(PairsFrom(1, 1, Len(KPI_KEYS)),
                    LAMBDA p : AbsGt(corr_data[KPI_KEYS[p[1]]][KPI_KEYS[p[2]]], 1, 2))
      row(p, corr_val) ==
        CorrelationRow(KPI_KEYS[p[1]], KPI_KEYS[p[2]], corr_val, AbsGt(corr_val, 7, 10))
  IN [n \in DOMAIN reported |->
        row(reported[n], corr_data[KPI_KEYS[reported[n][1]]][KPI_KEYS[reported[n][2]]])]

\* strong_correlations[:3]
KeyCorrelations(strong_correlations) ==
  SubSeq(strong_correlations, 1,
         IF Len(strong_correlations) < 3 THEN Len(strong_correlations) ELSE 3)

build_combined_analytics_view(store, columns, kpi_key) ==
  LET anomalies == detect_anomalies(store, kpi_key, Ratio(2, 1))
      corr_data == perform_correlation_analysis(store, columns)
      strong_correlations == StrongCorrelations(corr_data)
  IN [kpi_key |-> kpi_key,
      total_anomalies |-> anomalies.total_anomalies,
      anomaly_rate |-> anomalies.anomaly_rate,
      threshold |-> anomalies.threshold,
      strong_correlations |-> strong_correlations,
      key_correlations |-> KeyCorrelations(strong_correlations)]

(***************************************************************************)
(* Exact fractions.  A fraction is a ratio in lowest terms with a positive *)
(* denominator; the ratio 0/0 stands for NaN.  A surd is  q + c * sqrt(v)  *)
(* for fractions q, c and v >= 0.                                          *)
(***************************************************************************)
RECURSIVE Gcd(_, _)
Gcd(a, b) == IF b = 0 THEN a ELSE Gcd(b, a % b)

FNaN == Ratio(0, 0)

IsNaN(a) == a.den = 0

Reduce(num, den, g) ==
  IF den < 0 THEN Ratio((-num) \div g, (-den) \div g) ELSE Ratio(num \div g, den \div g)

Frac(num, den) == IF den = 0 THEN FNaN ELSE Reduce(num, den, Gcd(Abs(num), Abs(den)))

FracInt(n) == Ratio(n, 1)

AddOver(a, b, g) ==
  Frac(a.num * (b.den \div g) + b.num * (a.den \div g), (a.den \div g) * b.den)

FracAdd(a, b) == IF IsNaN(a) \/ IsNaN(b) THEN FNaN ELSE AddOver(a, b, Gcd(a.den, b.den))

FracNeg(a) == Ratio(-a.num, a.den)

FracSub(a, b) == FracAdd(a, FracNeg(b))

MulOver(a, b, g1, g2) ==
  Ratio((a.num \div g1) * (b.num \div g2), (a.den \div g2) * (b.den \div g1))

FracMul(a, b) ==
  IF IsNaN(a) \/ IsNaN(b) THEN FNaN
  ELSE MulOver(a, b, Gcd(Abs(a.num), b.den), Gcd(Abs(b.num), a.den))

\* a / b as numpy divides floats: NaN for 0/0 (a non-zero a over 0 is not used)
FracDiv(a, b) ==
  IF IsNaN(a) \/ IsNaN(b) \/ b.num = 0 THEN FNaN
  ELSE FracMul(a, IF b.num < 0 THEN Ratio(-b.den, -b.num) ELSE Ratio(b.den, b.num))

\* Comparisons as floats compare: FALSE when either side is NaN.
FracEq(a, b) == ~IsNaN(a) /\ ~IsNaN(b) /\ a = b

FracLt(a, b) == ~IsNaN(a) /\ ~IsNaN(b) /\ a.num * b.den < b.num * a.den

FracSign(a) == IF a.num > 0 THEN 1 ELSE IF a.num < 0 THEN -1 ELSE 0

RECURSIVE FracSum(_)
FracSum(s) == IF s = <<>> THEN FracInt(0) ELSE FracAdd(Head(s), FracSum(Tail(s)))

FracSquares(s) == [i \in DOMAIN s |-> FracMul(s[i], s[i])]

\* np.mean: NaN for an empty array
NpMean(s) == IF s = <<>> THEN FNaN ELSE FracMul(FracSum(s), Ratio(1, Len(s)))

Fracs(data) == [i \in DOMAIN data |-> FracInt(data[i])]

Deviations(s, mean) == [i \in DOMAIN s |-> FracSub(s[i], mean)]

\* np.var with ddof = 1, the sample variance
NpVarSample(s) ==
  FracMul(FracSum(FracSquares(Deviations(s, NpMean(s)))), Frac(1, Len(s) - 1))

\* np.var: mean(abs(x - x.mean()) ** 2), the population variance
NpVar(s) == NpMean(FracSquares(Deviations(s, NpMean(s))))

Surd(q, c, v) == [q |-> q, c |-> c, v |-> v]

\* np.sqrt of a fraction, and a fraction as a surd
SurdSqrt(v) == Surd(FracInt(0), FracInt(1), v)

SurdOf(q) == Surd(q, FracInt(0), FracInt(0))

\* np.std
NpStd(s) == SurdSqrt(NpVar(s))

\* k * a and q + a for a fraction and a surd, a - b for a surd and a fraction
SurdScale(k, a) == Surd(FracMul(k, a.q), FracMul(k, a.c), a.v)

SurdPlus(q, a) == Surd(FracAdd(q, a.q), a.c, a.v)

SurdMinus(q, a) == Surd(FracSub(q, a.q), FracNeg(a.c), a.v)

SurdLess(a, q) == Surd(FracSub(a.q, q), a.c, a.v)

SurdIsNaN(a) == IsNaN(a.q) \/ IsNaN(a.c) \/ IsNaN(a.v)

\* The sign of c * sqrt(v)
RootSign(a) == IF a.v.num = 0 THEN 0 ELSE FracSign(a.c)

\* a >= 0
SurdGeZero(a) ==
  /\ ~SurdIsNaN(a)
  /\ IF FracSign(a.q) >= 0 /\ RootSign(a) >= 0 THEN TRUE
     ELSE IF FracSign(a.q) <= 0 /\ RootSign(a) <= 0 THEN FALSE
     ELSE IF RootSign(a) > 0
          THEN ~FracLt(FracMul(FracMul(a.c, a.c), a.v), FracMul(a.q, a.q))
          ELSE ~FracLt(FracMul(a.q, a.q), FracMul(FracMul(a.c, a.c), a.v))

\* a = b for two surds whose roots are both zero or have the same radicand
SurdEq(a, b) ==
  /\ ~SurdIsNaN(a) /\ ~SurdIsNaN(b)
  /\ a.q = b.q
  /\ \/ RootSign(a) = 0 /\ RootSign(b) = 0
     \/ a.c = b.c /\ a.v = b.v

(***************************************************************************)
(* sklearn LinearRegression on one feature: ordinary least squares,        *)
(*   coef_ = (N sum(xy) - sum(x) sum(y)) / (N sum(x^2) - sum(x)^2),        *)
(*   intercept_ = mean(y) - coef_ * mean(x);                               *)
(* with a single sample the least-norm solution has coef_ = 0.             *)
(***************************************************************************)
LinearFitOf(x, y, varx) ==
  [coef_ |-> IF varx = 0 THEN FracInt(0) ELSE Frac(CovN2(x, y), varx),
   mean_x |-> Frac(Sum(x), Len(x)),
   mean_y |-> Frac(Sum(y), Len(y))]

Intercept(fit) == FracSub(fit.mean_y, FracMul(fit.coef_, fit.mean_x))

\* LinearRegression().fit(X, y)
LinearRegressionFit(X, y) ==
  [coef_ |-> LinearFitOf(X, y, VarN2(X)).coef_,
   intercept_ |-> Intercept(LinearFitOf(X, y, VarN2(X)))]

predict_unchecked(model, X) ==
  Return([i \in DOMAIN X |-> FracAdd(FracMul(model.coef_, FracInt(X[i])), model.intercept_)])

\* model.predict(X): check_array refuses an array of 0 samples with ValueError.
predict(model, X) ==
  IF X = <<>> THEN Raise("ValueError")
  ELSE Return([i \in DOMAIN X |->
                 FracAdd(FracMul(model.coef_, FracInt(X[i])), model.intercept_)])

\* r2_score: 1 - u/v; for v = 0 it is 1.0 when u = 0 and 0.0 otherwise.
R2Of(u, v) ==
  IF v.num # 0 THEN FracSub(FracInt(1), FracDiv(u, v))
  ELSE IF u.num = 0 THEN FracInt(1) ELSE FracInt(0)

\* model.score(X, y)
score(fitted, y) ==
  R2Of(FracSum(FracSquares([i \in DOMAIN y |-> FracSub(FracInt(y[i]), fitted[i])])),
       FracSum(FracSquares(Deviations(Fracs(y), NpMean(Fracs(y))))))

(***************************************************************************)
(* data_loader.generate_forecast                                           *)
(***************************************************************************)
FutureDaysFromLast(n, forecast_days) ==
  [i \in 1..(IF forecast_days > 0 THEN forecast_days ELSE 0) |-> n + i - 1]

\* np.arange(len(data) + 1, len(data) + forecast_days + 1): empty for
\* forecast_days <= 0.
FutureDays(n, forecast_days) ==
  [i \in 1..(IF forecast_days > 0 THEN forecast_days ELSE 0) |-> n + i]

ConfidenceInterval90(std_error) == SurdScale(Frac(1645, 1000), std_error)

\* confidence_interval = 1.96 * std_error
ConfidenceInterval(std_error) == SurdScale(Frac(196, 100), std_error)

\* residuals = y - model.predict(X)
Residuals(y, fitted) == [i \in DOMAIN y |-> FracSub(FracInt(y[i]), fitted[i])]

ForecastData(data, days_, future_days, forecast, confidence_interval, model, r_squared) ==
  [historical_days |-> days_,
   historical_values |-> data,
   forecast_days |-> future_days,
   forecast_values |-> forecast,
   upper_bound |-> [i \in DOMAIN forecast |-> SurdPlus(forecast[i], confidence_interval)],
   lower_bound |-> [i \in DOMAIN forecast |-> SurdMinus(forecast[i], confidence_interval)],
   r_squared |-> r_squared,
   slope |-> model.coef_,
   intercept |-> model.intercept_]

ForecastWith(data, days_, future_days, model, forecast, fitted) ==
  IF Raised(forecast) THEN forecast
  ELSE ForecastData(data, days_, future_days, forecast.value,
                    ConfidenceInterval(NpStd(Residuals(data, fitted.value))),
                    model, score(fitted.value, data))

ForecastFrom(data, days_, future_days, model) ==
  ForecastWith(data, days_, future_days, model,
               predict(model, future_days), predict(model, days_))

generate_forecast(store, kpi_key, forecast_days) ==
  IF kpi_key \notin DOMAIN store THEN Raise("KeyError")
  ELSE
  ForecastFrom(store[kpi_key], Arange1(Len(store[kpi_key])),
               FutureDays(Len(store[kpi_key]), forecast_days),
               LinearRegressionFit(Arange1(Len(store[kpi_key])), store[kpi_key]))

(***************************************************************************)
(* scipy.stats.linregress(days, data).  slope = ssxym / ssxm; r is 0 when  *)
(* either variance is 0.  With one point ssxm is 0 and slope, intercept    *)
(* and p-value are NaN.  The p-value (two-sided t test of the slope with   *)
(* N - 2 degrees of freedom) is kept by what fixes it: df and r^2; with    *)
(* two points scipy sets it to 1.0 when both values are equal, else 0.0.   *)
(***************************************************************************)
PValue(n, r2) ==
  IF n < 2 THEN [nan |-> TRUE, df |-> n - 2, r2 |-> r2]
  ELSE [nan |-> FALSE, df |-> n - 2, r2 |-> r2]

LinregressOf(n, cov, varx, vary) ==
  [slope |-> Frac(cov, varx),
   r2 |-> IF varx = 0 \/ vary = 0 THEN FracInt(0) ELSE Frac(cov * cov, varx * vary),
   p_value |-> PValue(n, IF varx = 0 \/ vary = 0 THEN FracInt(0)
                         ELSE Frac(cov * cov, varx * vary))]

linregress(x, y) == LinregressOf(Len(x), CovN2(x, y), VarN2(x), VarN2(y))

(***************************************************************************)
(* data_loader.calculate_trend_analysis (trend_significance, a label read  *)
(* off the p-value, is left out).                                          *)
(***************************************************************************)
HalfSplitCeil(n) == (n + 1) \div 2

\* len(data)//2
HalfSplit(n) == n \div 2

TrendDirectionNonstrict(slope) ==
  IF ~FracLt(slope, FracInt(0)) THEN "increasing"
  ELSE IF FracLt(slope, FracInt(0)) THEN "decreasing"
  ELSE "stable"

\* 'increasing' if slope > 0 else 'decreasing' if slope < 0 else 'stable'
TrendDirection(slope) ==
  IF FracLt(FracInt(0), slope) THEN "increasing"
  ELSE IF FracLt(slope, FracInt(0)) THEN "decreasing"
  ELSE "stable"

\* (second_half - first_half) / first_half if first_half != 0 else 0
TrendStrength(first_half, second_half) ==
  IF IsNaN(first_half) \/ first_half.num # 0
  THEN FracDiv(FracSub(second_half, first_half), first_half)
  ELSE FracInt(0)

TrendData(regression, first_half, second_half) ==
  [linear_slope |-> regression.slope,
   linear_r_squared |-> regression.r2,
   linear_pvalue |-> regression.p_value,
   trend_strength |-> TrendStrength(first_half, second_half),
   trend_direction |-> TrendDirection(regression.slope)]

TrendOf(data, split) ==
  TrendData(linregress(Arange1(Len(data)), data),
            NpMean(Fracs(SubSeq(data, 1, split))),
            NpMean(Fracs(SubSeq(data, split + 1, Len(data)))))

calculate_trend_analysis(store, kpi_key) ==
  IF kpi_key \notin DOMAIN store THEN Raise("KeyError")
  ELSE
  TrendOf(store[kpi_key], HalfSplit(Len(store[kpi_key])))

(***************************************************************************)
(* data_loader.calculate_descriptive_statistics                            *)
(***************************************************************************)
Sorted(data) == SortSeq(data, LAMBDA a, b : a < b)

\* Linear interpolation between the ranked samples around position
\* (N - 1) q / 100, counted from 0.
Lerp(sorted, lo, t) ==
  IF t.num = 0 THEN FracInt(sorted[lo + 1])
  ELSE FracAdd(FracInt(sorted[lo + 1]), FracMul(t, FracInt(sorted[lo + 2] - sorted[lo + 1])))

\* np.percentile(data, q)
NpPercentile(data, q) ==
  Lerp(Sorted(data), ((Len(data) - 1) * q) \div 100, Frac(((Len(data) - 1) * q) % 100, 100))

\* np.median(data)
NpMedian(data) == NpPercentile(data, 50)

SeqMin(data) == CHOOSE m \in {data[i] : i \in DOMAIN data} : \A i \in DOMAIN data : m <= data[i]

SeqMax(data) == CHOOSE m \in {data[i] : i \in DOMAIN data} : \A i \in DOMAIN data : m >= data[i]

FracCubes(s) == [i \in DOMAIN s |-> FracMul(s[i], FracMul(s[i], s[i]))]

\* The central moments m2, m3, m4 of scipy.stats: mean((x - mean) ** k)
CentralMoments(dev) ==
  [m2 |-> NpMean(FracSquares(dev)),
   m3 |-> NpMean(FracCubes(dev)),
   m4 |-> NpMean(FracSquares(FracSquares(dev)))]

\* scipy.stats.skew(data): m3 / m2 ** 1.5, kept as the pair; NaN when all
\* values are equal.
SkewOf(m) ==
  IF m.m2.num = 0 THEN [nan |-> TRUE, m3 |-> FracInt(0), m2 |-> FracInt(0)]
  ELSE [nan |-> FALSE, m3 |-> m.m3, m2 |-> m.m2]

\* scipy.stats.kurtosis(data): m4 / m2 ** 2 - 3; NaN when all values are equal.
KurtosisOf(m) ==
  IF m.m2.num = 0 THEN FNaN
  ELSE FracSub(FracDiv(m.m4, FracMul(m.m2, m.m2)), FracInt(3))

\* np.std(data) / np.mean(data) if np.mean(data) != 0 else 0
CoefficientOfVariation(std, mean) ==
  IF mean.num # 0 THEN SurdScale(FracDiv(FracInt(1), mean), std) ELSE SurdOf(FracInt(0))

StatsOf(data, s, m, q25, q75) ==
  [count |-> Len(data),
   mean |-> NpMean(s),
   median |-> NpMedian(data),
   std |-> NpStd(s),
   var |-> NpVar(s),
   min |-> SeqMin(data),
   max |-> SeqMax(data),
   range |-> SeqMax(data) - SeqMin(data),
   q25 |-> q25,
   q75 |-> q75,
   iqr |-> FracSub(q75, q25),
   skewness |-> SkewOf(m),
   kurtosis |-> KurtosisOf(m),
   cv |-> CoefficientOfVariation(NpStd(s), NpMean(s))]

calculate_descriptive_statistics(store, kpi_key) ==
  IF kpi_key \notin DOMAIN store THEN Raise("KeyError")
  ELSE
  StatsOf(store[kpi_key], Fracs(store[kpi_key]),
          CentralMoments(Deviations(Fracs(store[kpi_key]), NpMean(Fracs(store[kpi_key])))),
          NpPercentile(store[kpi_key], 25), NpPercentile(store[kpi_key], 75))

(***************************************************************************)
(* Binary64 arithmetic.  numpy computes on IEEE 754 doubles: every sum,    *)
(* difference, product, quotient and square root is the exact result       *)
(* rounded to 53 significant bits, ties to even.  A double is a sign, a    *)
(* significand m (a natural number of exactly MANT_DIG bits, or zero) and  *)
(* an exponent e, with value  (-1)^sign * m * 2^e.  Naturals of more than  *)
(* 31 bits are sequences of limbs in base LIMB, least significant first,   *)
(* without leading zero limbs.  Overflow, underflow and subnormals are out *)
(* of the range of the values computed here.                               *)
(***************************************************************************)
MANT_DIG == 53

LIMB_BITS == 15

LIMB == 2 ^ LIMB_BITS

RECURSIVE BigTrim(_)
BigTrim(a) ==
  IF a = <<>> THEN a
  ELSE IF a[Len(a)] = 0 THEN BigTrim(SubSeq(a, 1, Len(a) - 1))
  ELSE a

RECURSIVE BigOf(_)
BigOf(n) == IF n = 0 THEN <<>> ELSE <<n % LIMB>> \o BigOf(n \div LIMB)

LimbAt(a, i) == IF i <= Len(a) THEN a[i] ELSE 0

RECURSIVE BigAddFrom(_, _, _, _)
BigAddFrom(a, b, i, carry) ==
  IF i > Len(a) /\ i > Len(b) THEN (IF carry = 0 THEN <<>> ELSE <<carry>>)
  ELSE <<(LimbAt(a, i) + LimbAt(b, i) + carry) % LIMB>>
         \o BigAddFrom(a, b, i + 1, (LimbAt(a, i) + LimbAt(b, i) + carry) \div LIMB)

BigAdd(a, b) == BigTrim(BigAddFrom(a, b, 1, 0))

\* a - b for a >= b
RECURSIVE BigSubFrom(_, _, _, _)
BigSubFrom(a, b, i, borrow) ==
  IF i > Len(a) THEN <<>>
  ELSE <<(a[i] - LimbAt(b, i) - borrow + LIMB) % LIMB>>
         \o BigSubFrom(a, b, i + 1, IF a[i] - LimbAt(b, i) - borrow < 0 THEN 1 ELSE 0)

BigSub(a, b) == BigTrim(BigSubFrom(a, b, 1, 0))

RECURSIVE BigLessAt(_, _, _)
BigLessAt(a, b, i) ==
  IF i = 0 THEN FALSE
  ELSE IF a[i] # b[i] THEN a[i] < b[i]
  ELSE BigLessAt(a, b, i - 1)

BigLess(a, b) ==
  IF Len(a) # Len(b) THEN Len(a) < Len(b) ELSE BigLessAt(a, b, Len(a))

\* a * d for one limb d
RECURSIVE BigMulLimbFrom(_, _, _, _)
BigMulLimbFrom(a, d, i, carry) ==
  IF i > Len(a) THEN (IF carry = 0 THEN <<>> ELSE <<carry>>)
  ELSE <<(a[i] * d + carry) % LIMB>>
         \o BigMulLimbFrom(a, d, i + 1, (a[i] * d + carry) \div LIMB)

BigMulLimb(a, d) == BigTrim(BigMulLimbFrom(a, d, 1, 0))

RECURSIVE BigMulFrom(_, _, _)
BigMulFrom(a, b, j) ==
  IF j > Len(b) THEN <<>>
  ELSE BigAdd(BigMulLimb(a, b[j]), <<0>> \o BigMulFrom(a, b, j + 1))

BigMul(a, b) == BigMulFrom(a, b, 1)

\* a * 2^k
BigShl(a, k) ==
  IF a = <<>> THEN a
  ELSE [i \in 1..(k \div LIMB_BITS) |-> 0] \o BigMulLimb(a, 2 ^ (k % LIMB_BITS))

\* a \div 2^k
BigShr(a, k) ==
  LET q == k \div LIMB_BITS
      r == k % LIMB_BITS
  IN BigTrim([i \in 1..(Len(a) - q) |->
                (a[i + q] \div 2 ^ r)
                  + (LimbAt(a, i + q + 1) % 2 ^ r) * 2 ^ (LIMB_BITS - r)])

RECURSIVE SmallBitLen(_)
SmallBitLen(n) == IF n = 0 THEN 0 ELSE 1 + SmallBitLen(n \div 2)

BitLen(a) ==
  IF a = <<>> THEN 0 ELSE LIMB_BITS * (Len(a) - 1) + SmallBitLen(a[Len(a)])

\* bit k of a (bit 0 is the least significant)
BigBit(a, k) == (LimbAt(a, k \div LIMB_BITS + 1) \div 2 ^ (k % LIMB_BITS)) % 2

\* a is a multiple of 2^k
LowBitsZero(a, k) == BigShl(BigShr(a, k), k) = a

\* One step of binary long division: bit i of the quotient, with s = b * 2^i
\* and qr the quotient bits above bit i and the remainder they leave.
BigDivStep(qr, s, i) ==
  IF BigLess(qr.r, s) THEN qr
  ELSE [q |-> BigAdd(qr.q, BigShl(<<1>>, i)), r |-> BigSub(qr.r, s)]

\* the steps for bits hi down to lo: the upper half, then the lower half
RECURSIVE BigDivRange(_, _, _, _)
BigDivRange(qr, b, hi, lo) ==
  IF hi = lo THEN BigDivStep(qr, BigShl(b, hi), hi)
  ELSE CHOOSE r \in {BigDivRange(upper, b, (hi + lo) \div 2, lo) :
                       upper \in {BigDivRange(qr, b, hi, (hi + lo) \div 2 + 1)}} : TRUE

\* quotient and remainder of a by b
BigDivMod(a, b) ==
  IF BigLess(a, b) THEN [q |-> <<>>, r |-> a]
  ELSE BigDivRange([q |-> <<>>, r |-> a], b, BitLen(a) - BitLen(b), 0)

\* One step of the binary square root: bit i of the root, with cand the
\* root bits above bit i in res and bit i set.
BigSqrtStep(n, res, cand) ==
  IF BigLess(n, BigMul(cand, cand)) THEN res ELSE cand

RECURSIVE BigSqrtRange(_, _, _, _)
BigSqrtRange(n, res, hi, lo) ==
  IF hi = lo THEN BigSqrtStep(n, res, BigAdd(res, BigShl(<<1>>, hi)))
  ELSE CHOOSE r \in {BigSqrtRange(n, upper, (hi + lo) \div 2, lo) :
                       upper \in {BigSqrtRange(n, res, hi, (hi + lo) \div 2 + 1)}} : TRUE

\* floor(sqrt(n))
BigSqrt(n) == BigSqrtRange(n, <<>>, (BitLen(n) + 1) \div 2, 0)

Float(sign, m, e) == [sign |-> sign, m |-> m, e |-> e]

FZero == Float(0, <<>>, 0)

IsZero(a) == a.m = <<>>

\* a significand of MANT_DIG + 1 bits after rounding up is 2^MANT_DIG
FNormal(sign, q, e) ==
  IF BitLen(q) > MANT_DIG THEN Float(sign, BigShr(q, 1), e + 1) ELSE Float(sign, q, e)

FRoundDown(sign, n, e, k, up) ==
  FNormal(sign, IF up THEN BigAdd(BigShr(n, k), <<1>>) ELSE BigShr(n, k), e + k)

\* The double nearest to  n * 2^e  (n > 0), ties to even; sticky says that
\* the exact value lies strictly between n * 2^e and (n + 1) * 2^e.
FRound(sign, n, e, sticky) ==
  IF BitLen(n) <= MANT_DIG
  THEN Float(sign, BigShl(n, MANT_DIG - BitLen(n)), e - (MANT_DIG - BitLen(n)))
  ELSE FRoundDown(sign, n, e, BitLen(n) - MANT_DIG,
         /\ BigBit(n, BitLen(n) - MANT_DIG - 1) = 1
         /\ \/ sticky
            \/ ~LowBitsZero(n, BitLen(n) - MANT_DIG - 1)
            \/ BigBit(n, BitLen(n) - MANT_DIG) = 1)

\* float(n) for an integer n
FromInt(n) == IF n = 0 THEN FZero ELSE FRound(IF n < 0 THEN 1 ELSE 0, BigOf(Abs(n)), 0, FALSE)

FNeg(a) == [a EXCEPT !.sign = 1 - @]

FAbs(a) == [a EXCEPT !.sign = 0]

FAddAligned(sa, na, sb, nb, e) ==
  IF sa = sb THEN FRound(sa, BigAdd(na, nb), e, FALSE)
  ELSE IF na = nb THEN FZero
  ELSE IF BigLess(na, nb) THEN FRound(sb, BigSub(nb, na), e, FALSE)
  ELSE FRound(sa, BigSub(na, nb), e, FALSE)

FAddAt(a, b, e) ==
  FAddAligned(a.sign, BigShl(a.m, a.e - e), b.sign, BigShl(b.m, b.e - e), e)

FAdd(a, b) ==
  IF IsZero(a) THEN b
  ELSE IF IsZero(b) THEN a
  ELSE FAddAt(a, b, IF a.e < b.e THEN a.e ELSE b.e)

FSub(a, b) == FAdd(a, FNeg(b))

FMul(a, b) ==
  IF IsZero(a) \/ IsZero(b) THEN FZero
  ELSE FRound((a.sign + b.sign) % 2, BigMul(a.m, b.m), a.e + b.e, FALSE)

FDivOf(sign, dm, e) == FRound(sign, dm.q, e, dm.r # <<>>)

\* a / b for b # 0
FDiv(a, b) ==
  IF IsZero(a) THEN FZero
  ELSE FDivOf((a.sign + b.sign) % 2, BigDivMod(BigShl(a.m, MANT_DIG + 3), b.m),
              a.e - b.e - (MANT_DIG + 3))

FSqrtOf(n, root, e) == FRound(0, root, e, BigMul(root, root) # n)

FSqrtEven(n, e) == FSqrtOf(n, BigSqrt(n), e \div 2)

\* sqrt(a) for a >= 0: the root of  m * 2^s * 2^(e - s)  with e - s even
FSqrt(a) ==
  IF IsZero(a) THEN FZero
  ELSE FSqrtEven(BigShl(a.m, MANT_DIG + 3 + (a.e % 2)), a.e - (a.e % 2) - (MANT_DIG + 3))

IsPositive(a) == ~IsZero(a) /\ a.sign = 0

\* a > b
FGt(a, b) == IsPositive(FSub(a, b))

(***************************************************************************)
(* The page.  props holds the component properties that the callbacks      *)
(* read or write, under "id.property".  A style is the record of the keys  *)
(* that the layout or a callback sets to different values; the keys that   *)
(* every writer sets alike are left out.  pending holds the callbacks that *)
(* a changed Input has triggered and that have not run yet, each with the  *)
(* properties that triggered it (none for the call at page load).          *)
(***************************************************************************)
SIEMENS_BG == "#f8fafc"

SIEMENS_CARD == "#ffffff"

SIEMENS_ACCENT == "#e3eefa"

SIEMENS_BLUE == "#0070b8"

get_sidebar_style == [left |-> "0"]

get_sidebar_collapsed_style == [left |-> "-380px"]

get_section_style == [background |-> SIEMENS_BG]

\* The outputs that a call leaves alone (dash.no_update) are left out of
\* the record of outputs it returns.
NoUpdate == [p \in {} |-> FALSE]

\* styles.get_nav_button_style: the keys that tell an active button from an
\* inactive one and one level from another.
get_nav_button_style(active, level) ==
  [background |-> IF active THEN SIEMENS_ACCENT ELSE SIEMENS_CARD,
   color |-> IF active THEN "#000" ELSE SIEMENS_BLUE,
   marginLeft |-> CASE level = 1 -> "0" [] level = 2 -> "16px" [] OTHER -> "32px",
   display |-> "flex",
   transform |-> IF active THEN "translateX(2px)" ELSE "translateX(0)"]

get_smooth_transition_style == [transform |-> "translateZ(0)"]

\* {**style, **over}
WithStyle(style, over) == over @@ style

\* The ids of the four navigation buttons, and the property ids that Dash
\* gives them: the id dictionary as JSON with sorted keys, then the property.
NavButtons == {"geospatial", "kpi", "3d", "assets"}

NavButtonProp(b, property) ==
  CASE b = "geospatial" /\ property = "n_clicks" ->
         "{\"id\":\"geospatial\",\"type\":\"nav-button\"}.n_clicks"
    [] b = "geospatial" /\ property = "style" ->
         "{\"id\":\"geospatial\",\"type\":\"nav-button\"}.style"
    [] b = "kpi" /\ property = "n_clicks" ->
         "{\"id\":\"kpi\",\"type\":\"nav-button\"}.n_clicks"
    [] b = "kpi" /\ property = "style" ->
         "{\"id\":\"kpi\",\"type\":\"nav-button\"}.style"
    [] b = "3d" /\ property = "n_clicks" ->
         "{\"id\":\"3d\",\"type\":\"nav-button\"}.n_clicks"
    [] b = "3d" /\ property = "style" ->
         "{\"id\":\"3d\",\"type\":\"nav-button\"}.style"
    [] b = "assets" /\ property = "n_clicks" ->
         "{\"id\":\"assets\",\"type\":\"nav-button\"}.n_clicks"
    [] b = "assets" /\ property = "style" ->
         "{\"id\":\"assets\",\"type\":\"nav-button\"}.style"

\* The nine buttons of components.build_3d_controls and their click counts.
ViewerButtons ==
  {"btn-pan-up", "btn-pan-down", "btn-pan-left", "btn-pan-right", "btn-zoom-in",
   "btn-zoom-out", "btn-center", "btn-rot-left", "btn-rot-right"}

ButtonProp(which) ==
  CASE which = "btn-pan-up" -> "btn-pan-up.n_clicks"
    [] which = "btn-pan-down" -> "btn-pan-down.n_clicks"
    [] which = "btn-pan-left" -> "btn-pan-left.n_clicks"
    [] which = "btn-pan-right" -> "btn-pan-right.n_clicks"
    [] which = "btn-zoom-in" -> "btn-zoom-in.n_clicks"
    [] which = "btn-zoom-out" -> "btn-zoom-out.n_clicks"
    [] which = "btn-center" -> "btn-center.n_clicks"
    [] which = "btn-rot-left" -> "btn-rot-left.n_clicks"
    [] which = "btn-rot-right" -> "btn-rot-right.n_clicks"

\* The callback behind each decorated function: its Inputs and whether it
\* is called at page load.
Callbacks ==
  [toggle_sidebar |->
     [inputs |-> {"sidebar-toggle.n_clicks", "floating-sidebar-toggle.n_clicks"},
      initial_call |-> FALSE],
   update_floating_button_visibility |->
     [inputs |-> {"sidebar-collapsed.data"}, initial_call |-> TRUE],
   initialize_sidebar |->
     [inputs |-> {"sidebar-collapsed.data"}, initial_call |-> TRUE],
   handle_sidebar_navigation |->
     [inputs |-> {NavButtonProp(b, "n_clicks") : b \in NavButtons}, initial_call |-> FALSE],
   update_active_button_styles |->
     [inputs |-> {"active-view.data", "view-visibility.data"}, initial_call |-> TRUE],
   track_hierarchical_visibility |->
     [inputs |-> {"clicked-shopfloor.data", "garching-selected-part.data"},
      initial_call |-> TRUE],
   show_garching_site |->
     [inputs |-> {"clicked-shopfloor.data"}, initial_call |-> TRUE],
   handle_garching_click |->
     [inputs |-> {"vtk-garching-view.clickInfo", "clicked-shopfloor.data"},
      initial_call |-> TRUE],
   handle_shopfloor_click |->
     [inputs |-> {"shopfloor-1-button.n_clicks"}, initial_call |-> FALSE],
   init_bounds |->
     [inputs |-> {"clicked-shopfloor.data"}, initial_call |-> TRUE],
   viewer_controls |->
     [inputs |-> {ButtonProp(which) : which \in ViewerButtons}, initial_call |-> FALSE],
   trigger_sphere_anim |->
     [inputs |-> {"garching-selected-part.data"}, initial_call |-> TRUE],
   animate_sphere |->
     [inputs |-> {"sphere-anim.n_intervals"}, initial_call |-> FALSE],
   stop_anim_after |->
     [inputs |-> {"sphere-anim.n_intervals"}, initial_call |-> FALSE],
   toggle_export_modal |->
     [inputs |-> {"export-data-btn.n_clicks", "export-cancel-btn.n_clicks",
                  "export-confirm-btn.n_clicks"},
      initial_call |-> FALSE],
   export_data |->
     [inputs |-> {"export-confirm-btn.n_clicks"}, initial_call |-> FALSE]]

\* mesh.length of the loaded mesh, and the radius that
\* build_garching_site_view gives the sphere: max(mesh.length / 2000.0, 0.05).
MeshLength == 300

FMax(a, b) == IF FGt(b, a) THEN b ELSE a

SphereRadius ==
  FMax(FDiv(FromInt(MeshLength), FromInt(2000)), FDiv(FromInt(5), FromInt(100)))

\* The layout that app.py builds.
Layout ==
  ("sidebar-toggle.n_clicks" :> 0)
  @@ ("floating-sidebar-toggle.n_clicks" :> 0)
  @@ ("floating-sidebar-toggle.style" :> [display |-> "flex"])
  @@ ("sidebar-collapsed.data" :> FALSE)
  @@ ("sidebar.style" :> get_sidebar_style)
  @@ ("main-content.style" :> [marginLeft |-> "380px"])
  @@ [p \in {NavButtonProp(b, "n_clicks") : b \in NavButtons} |-> 0]
  @@ (NavButtonProp("geospatial", "style") :>
        WithStyle(get_nav_button_style(TRUE, 1), get_smooth_transition_style))
  @@ (NavButtonProp("kpi", "style") :>
        WithStyle(WithStyle(get_nav_button_style(FALSE, 2), [display |-> "none"]),
                  get_smooth_transition_style))
  @@ (NavButtonProp("3d", "style") :>
        WithStyle(WithStyle(get_nav_button_style(FALSE, 2), [display |-> "none"]),
                  get_smooth_transition_style))
  @@ (NavButtonProp("assets", "style") :>
        WithStyle(WithStyle(get_nav_button_style(FALSE, 3), [display |-> "none"]),
                  get_smooth_transition_style))
  @@ ("level-2-navigation.style" :> [display |-> "none", marginTop |-> "8px"])
  @@ ("level-3-navigation.style" :> [display |-> "none", marginTop |-> "8px"])
  @@ ("clicked-shopfloor.data" :> None)
  @@ ("garching-selected-part.data" :> None)
  @@ ("view-visibility.data" :>
        (("geospatial" :> TRUE) @@ ("kpi" :> FALSE) @@ ("3d" :> FALSE) @@ ("assets" :> FALSE)))
  @@ ("active-view.data" :> "geospatial")
  @@ ("geospatial-section.style" :> get_section_style)
  @@ ("kpi-section.style" :> [display |-> "none"])
  @@ ("garching-3d-section.style" :> [display |-> "none"])
  @@ ("asset-section.style" :> [display |-> "none"])
  @@ ("garching-3d-container.children" :> "placeholder")
  @@ ("vtk-garching-view.clickInfo" :> None)
  @@ ("shopfloor-1-button.n_clicks" :> 0)
  @@ ("garching-bounds.data" :> None)
  @@ [p \in {ButtonProp(which) : which \in ViewerButtons} |-> 0]
  @@ ("vtk-mesh-repr.actor" :> [position |-> <<0, 0, 0>>, orientation |-> <<0, 0, 0>>])
  @@ ("vtk-sphere-repr.actor" :> [position |-> <<0, 0, 0>>, orientation |-> <<0, 0, 0>>])
  @@ ("vtk-sphere-src.state" :> [center |-> "center_list", radius |-> SphereRadius])
  @@ ("vtk-sphere-repr.property" :> [color |-> <<1, 0, 0>>, opacity |-> 1])
  @@ ("sphere-anim.disabled" :> TRUE)
  @@ ("sphere-anim.n_intervals" :> 0)
  @@ ("export-data-btn.n_clicks" :> 0)
  @@ ("export-cancel-btn.n_clicks" :> 0)
  @@ ("export-confirm-btn.n_clicks" :> 0)
  @@ ("export-modal.style" :> [display |-> "none"])
  @@ ("export-format-dropdown.value" :> "csv")
  @@ ("export-data-checklist.value" :> {"kpi_data"})
  @@ ("download-data.data" :> None)
  @@ ("export-btn-text.children" :> "Export Data")
  @@ ("export-loading.children" :> None)
  @@ ("export-loading.style" :> [display |-> "none"])

\* The calls that a change of the properties in changed triggers, among the
\* callbacks in scope.
Triggered(scope, changed) ==
  UNION {{[callback |-> c, triggered |-> {p}] : p \in changed \cap Callbacks[c].inputs} :
           c \in scope}

\* The calls made when the page loads.
InitialCalls(scope) ==
  {[callback |-> c, triggered |-> {}] : c \in {s \in scope : Callbacks[s].initial_call}}

\* The clients of the server, and the sessions before any request: no
\* session is marked authenticated.
Clients == {"client-1", "client-2"}

NoSessions == [c \in Clients |-> FALSE]

\* A page that has loaded and whose callbacks are not in use.
PageIdle == props = Layout /\ pending = {} /\ session = NoSessions

\* ctx.triggered[0]['prop_id']
TriggeredProp(triggered) == CHOOSE p \in triggered : TRUE

\* The page takes the outputs of the call e and triggers the callbacks that
\* have one of them as an Input.
Respond(scope, e, outputs) ==
  /\ props' = [p \in DOMAIN props |-> IF p \in DOMAIN outputs THEN outputs[p] ELSE props[p]]
  /\ pending' = (pending \ {e}) \cup Triggered(scope, DOMAIN outputs)

\* The user changes a property while no callback is in flight.
UserSets(scope, p, value) ==
  /\ pending = {}
  /\ props' = [props EXCEPT ![p] = value]
  /\ pending' = Triggered(scope, {p})

(***************************************************************************)
(* callbacks.toggle_sidebar, update_floating_button_visibility,            *)
(* initialize_sidebar                                                      *)
(***************************************************************************)
MainContentStyle(marginLeft) == [marginLeft |-> marginLeft]

toggle_sidebar_collapse_only(sidebar_clicks, floating_clicks, is_collapsed, triggered) ==
  IF triggered = {} THEN NoUpdate
  ELSE ("sidebar.style" :> get_sidebar_collapsed_style)
       @@ ("main-content.style" :> MainContentStyle("0"))
       @@ ("sidebar-collapsed.data" :> TRUE)

toggle_sidebar(sidebar_clicks, floating_clicks, is_collapsed, triggered) ==
  IF triggered = {} THEN NoUpdate
  ELSE LET new_collapsed_state == ~is_collapsed
       IN ("sidebar.style" :>
              IF new_collapsed_state THEN get_sidebar_collapsed_style ELSE get_sidebar_style)
          @@ ("main-content.style" :>
                IF new_collapsed_state THEN MainContentStyle("0") ELSE MainContentStyle("380px"))
          @@ ("sidebar-collapsed.data" :> new_collapsed_state)

update_floating_button_visibility(is_collapsed) ==
  "floating-sidebar-toggle.style" :>
     IF is_collapsed
     THEN [display |-> "flex", opacity |-> "1", pointerEvents |-> "auto"]
     ELSE [display |-> "flex", opacity |-> "0", pointerEvents |-> "none"]

initialize_sidebar(is_collapsed) ==
  ("sidebar.style" :> IF is_collapsed THEN get_sidebar_collapsed_style ELSE get_sidebar_style)
  @@ ("main-content.style" :>
        IF is_collapsed THEN MainContentStyle("0") ELSE MainContentStyle("380px"))

(***************************************************************************)
(* The dashboard's store: simulate_kpi() builds one series of KPI_DAYS     *)
(* samples per metric, a base level plus a wave plus noise, so any value   *)
(* can occur.  The stores the model starts from take every sample of a     *)
(* metric from the values that decide its status: its two thresholds and   *)
(* their neighbours on the worse side.  A store is fixed by the level of   *)
(* each day and by how far the metrics are shifted against each other.     *)
(***************************************************************************)
SampleLevels(k) ==
  IF k \in DOMAIN KPI_THRESHOLDS
  THEN LET W == KPI_THRESHOLDS[k].warning
           C == KPI_THRESHOLDS[k].critical
           worse == IF W > C THEN -1 ELSE 1
       IN <<W, W + worse, C, C + worse>>
  ELSE <<0, 2801, 3201, 100000>>

Levels == 0..3

StoreOf(lv, shift) ==
  [k \in StoreKeys |->
     [d \in 1..KPI_DAYS |-> SampleLevels(k)[((lv[d] + shift * KeyPos(k)) % 4) + 1]]]

Shifts == {0, 1}

DashboardStores == {StoreOf(lv, shift) : lv \in [1..KPI_DAYS -> Levels], shift \in Shifts}

\* The keys of the store in insertion order.
StoreOrder == KPI_KEYS \o <<"air_quality">>

Init ==
  /\ kpi_keys = StoreOrder
  /\ kpi_thresholds = KPI_THRESHOLDS
  /\ kpi_data \in DashboardStores
  /\ op = "init"
  /\ status_ret = None
  /\ ret = None
  /\ PageIdle

days == Arange1(KPI_DAYS)

CalculateKpiStatus(k, idx) ==
  /\ status_ret' = [key |-> k, idx |-> idx,
                    status |-> calculate_kpi_status(kpi_data, k, idx)]
  /\ op' = "calculate_kpi_status"
  /\ UNCHANGED <<kpi_keys, kpi_thresholds, kpi_data, ret, page, session>>

UpdateKpiCards ==
  /\ ret' = KpiCards(kpi_data, -1)
  /\ op' = "update_kpi_cards"
  /\ UNCHANGED <<kpi_keys, kpi_thresholds, kpi_data, status_ret, page, session>>

UpdateKpiCardsOnHover(trend_hover) ==
  /\ ret' = KpiCards(kpi_data, HoverIdx(trend_hover))
  /\ op' = "update_kpi_cards_on_hover"
  /\ UNCHANGED <<kpi_keys, kpi_thresholds, kpi_data, status_ret, page, session>>

UpdateTrendChart(selected_kpi) ==
  LET r == make_trend_figure(selected_kpi, kpi_data, days)
  IN /\ ret' = [selected_kpi |-> selected_kpi, figure |-> r.figure]
     /\ kpi_data' = r.kpi_data
     /\ op' = "update_trend_chart"
     /\ UNCHANGED <<kpi_keys, kpi_thresholds, status_ret, page, session>>

ExportKpiDataToCsv ==
  LET r == export_kpi_data_to_csv(kpi_data, days)
  IN /\ ret' = r.content
     /\ kpi_data' = r.kpi_data
     /\ op' = "export_kpi_data_to_csv"
     /\ UNCHANGED <<kpi_keys, kpi_thresholds, status_ret, page, session>>

ExportKpiDataToJson ==
  LET r == export_kpi_data_to_json(kpi_data, days)
  IN /\ ret' = r.content
     /\ kpi_data' = r.kpi_data
     /\ op' = "export_kpi_data_to_json"
     /\ UNCHANGED <<kpi_keys, kpi_thresholds, status_ret, page, session>>

ExportKpiStatusToJson ==
  LET r == export_kpi_status_to_json(kpi_data, -1)
  IN /\ ret' = r.content
     /\ kpi_data' = r.kpi_data
     /\ op' = "export_kpi_status_to_json"
     /\ UNCHANGED <<kpi_keys, kpi_thresholds, status_ret, page, session>>

DetectAnomalies(k, threshold) ==
  /\ ret' = [kpi_key |-> k, result |-> detect_anomalies(kpi_data, k, threshold)]
  /\ op' = "detect_anomalies"
  /\ UNCHANGED <<kpi_keys, kpi_thresholds, kpi_data, status_ret, page, session>>

HoverInputs == {None} \cup {[x |-> d] : d \in 0..(KPI_DAYS + 1)}

Next ==
  \/ \E k \in StoreKeys, idx \in (-1)..(KPI_DAYS - 1) : CalculateKpiStatus(k, idx)
  \/ UpdateKpiCards
  \/ \E h \in HoverInputs : UpdateKpiCardsOnHover(h)
  \/ \E k \in KpiSet : UpdateTrendChart(k)
  \/ ExportKpiDataToCsv
  \/ ExportKpiDataToJson
  \/ ExportKpiStatusToJson
  \/ \E k \in KpiSet : DetectAnomalies(k, Ratio(2, 1))

Spec == Init /\ [][Next]_vars

(***************************************************************************)
(* scipy.stats.zscore(data) and detect_anomalies as numpy computes them,   *)
(* in binary64:  mn = sum / N,  std = sqrt(sum((x - mn) * (x - mn)) / N),  *)
(* z = (x - mn) / std, every step rounded; NaN for a series whose samples  *)
(* all equal the first.  np.sum adds the samples in order, starting at 0.  *)
(***************************************************************************)
\* NaN marks itself with an exponent no finite double has.
DoubleNaN == Float(0, <<1>>, 1024)

IsDoubleNaN(a) == a.e = DoubleNaN.e

\* float of a stored value (values are kept in hundredths)
ToDouble(v) == FDiv(FromInt(v), FromInt(100))

\* float of a ratio num / den
RatioToDouble(r) == FDiv(FromInt(r.num), FromInt(r.den))

RECURSIVE NpSumFrom(_, _, _)
NpSumFrom(xs, i, acc) ==
  IF i > Len(xs) THEN acc ELSE NpSumFrom(xs, i + 1, FAdd(acc, xs[i]))

NpSum(xs) == NpSumFrom(xs, 1, FZero)

\* F(v), with v computed once, before F
Then(v, F(_)) == CHOOSE r \in {F(x) : x \in {v}} : TRUE

\* the array of the values f[1], ..., f[n], each computed once
Array(f) == f \o <<>>

Doubles(data) == Array([i \in DOMAIN data |-> ToDouble(data[i])])

NpMean64(xs) == FDiv(NpSum(xs), FromInt(Len(xs)))

Centered(xs, mn) == Array([i \in DOMAIN xs |-> FSub(xs[i], mn)])

Squared(d) == Array([i \in DOMAIN d |-> FMul(d[i], d[i])])

NpStd64(d) == FSqrt(NpMean64(Squared(d)))

ZScoresOf(d, std) == Array([i \in DOMAIN d |-> FDiv(d[i], std)])

ZScoresFrom(d) == Then(NpStd64(d), LAMBDA std : ZScoresOf(d, std))

ZScoresAbout(xs, mn) == Then(Centered(xs, mn), LAMBDA d : ZScoresFrom(d))

zscore_binary64_of(xs) == Then(NpMean64(xs), LAMBDA mn : ZScoresAbout(xs, mn))

zscore_binary64(data) ==
  IF \A i \in DOMAIN data : data[i] = data[1]
  THEN [i \in DOMAIN data |-> DoubleNaN]
  ELSE Then(Doubles(data), LAMBDA xs : zscore_binary64_of(xs))

\* np.abs, elementwise
NpAbs64(z) == Array([i \in DOMAIN z |-> FAbs(z[i])])

\* z_scores > threshold, elementwise: False for NaN
AnomaliesOf(z_scores, t) ==
  Array([i \in DOMAIN z_scores |-> ~IsDoubleNaN(z_scores[i]) /\ FGt(z_scores[i], t)])

AnomalyData(data, z_scores, anomaly_indices, threshold) ==
  [days |-> Take(Arange1(Len(data)), anomaly_indices),
   values |-> Take(data, anomaly_indices),
   z_scores |-> Take(z_scores, anomaly_indices),
   threshold |-> threshold,
   total_anomalies |-> Len(anomaly_indices),
   anomaly_rate |-> Ratio(Len(anomaly_indices), Len(data))]

AnomaliesFrom(data, z_scores, threshold) ==
  Then(NpWhere(AnomaliesOf(z_scores, RatioToDouble(threshold))),
       LAMBDA anomaly_indices : AnomalyData(data, z_scores, anomaly_indices, threshold))

detect_anomalies_binary64(store, kpi_key, threshold) ==
  IF kpi_key \notin DOMAIN store THEN Raise("KeyError")
  ELSE Then(NpAbs64(zscore_binary64(store[kpi_key])),
            LAMBDA z_scores : AnomaliesFrom(store[kpi_key], z_scores, threshold))

(***************************************************************************)
(* Single-series analytics.  The store holds the series under analysis as  *)
(* one metric and a series of zeros of the same length as every other.     *)
(***************************************************************************)
E2E_SERIES == <<10, 10, 10, 10, 10, 50>>

AnalyticsSeries ==
  UNION {[1..n -> 0..MaxVal] : n \in 1..MaxLen}
    \cup {E2E_SERIES, [i \in 1..Len(E2E_SERIES) |-> 60 - E2E_SERIES[i]]}

AnalyticsStore(data) ==
  [k \in KpiSet |-> IF k = "energy_spend" THEN data ELSE [i \in DOMAIN data |-> 0]]

\* Thresholds of detect_anomalies, as ratios; the default is 2.0.
Thresholds == {Ratio(-1, 1), Ratio(0, 1), Ratio(1, 1), Ratio(3, 2), Ratio(2, 1)}

InitAnalytics ==
  /\ kpi_keys = KPI_KEYS
  /\ kpi_thresholds = KPI_THRESHOLDS
  /\ kpi_data \in {AnalyticsStore(data) : data \in AnalyticsSeries}
  /\ op = "init"
  /\ status_ret = None
  /\ ret = None
  /\ PageIdle

\* The metrics the analytics calls of the model select.
AnalysedKeys == {"energy_spend", "oee"}

NextAnalytics ==
  \E k \in AnalysedKeys, threshold \in Thresholds : DetectAnomalies(k, threshold)

SpecAnalytics == InitAnalytics /\ [][NextAnalytics]_vars

(***************************************************************************)
(* Statistics, trend and forecast of one series.  The stores are those of  *)
(* the single-series analytics, one holding the series 1..5 and one whose  *)
(* series has mean 0.                                                      *)
(***************************************************************************)
P3_SERIES == <<1, 2, 3, 4, 5>>

\* A series that is not constant and whose mean, and first-half mean, is 0.
ZERO_MEAN_SERIES == <<-1, 1, -2, 2>>

RegressionSeries == AnalyticsSeries \cup {P3_SERIES, ZERO_MEAN_SERIES}

InitRegression ==
  /\ kpi_keys = KPI_KEYS
  /\ kpi_thresholds = KPI_THRESHOLDS
  /\ kpi_data \in {AnalyticsStore(data) : data \in RegressionSeries}
  /\ op = "init"
  /\ status_ret = None
  /\ ret = None
  /\ PageIdle

CalculateDescriptiveStatistics(k) ==
  /\ ret' = [kpi_key |-> k, result |-> calculate_descriptive_statistics(kpi_data, k)]
  /\ op' = "calculate_descriptive_statistics"
  /\ UNCHANGED <<kpi_keys, kpi_thresholds, kpi_data, status_ret, page, session>>

CalculateTrendAnalysis(k) ==
  /\ ret' = [kpi_key |-> k, result |-> calculate_trend_analysis(kpi_data, k)]
  /\ op' = "calculate_trend_analysis"
  /\ UNCHANGED <<kpi_keys, kpi_thresholds, kpi_data, status_ret, page, session>>

GenerateForecast(k, forecast_days) ==
  /\ ret' = [kpi_key |-> k, forecast_days |-> forecast_days,
             result |-> generate_forecast(kpi_data, k, forecast_days)]
  /\ op' = "generate_forecast"
  /\ UNCHANGED <<kpi_keys, kpi_thresholds, kpi_data, status_ret, page, session>>

\* Horizons asked of generate_forecast; the default is 7.
Horizons == {-1, 0, 1, 2, 7}

\* The metric the analytics dropdown selects.
SelectedKpis == {"energy_spend"}

NextRegression ==
  \/ \E k \in SelectedKpis : CalculateDescriptiveStatistics(k)
  \/ \E k \in SelectedKpis : CalculateTrendAnalysis(k)
  \/ \E k \in SelectedKpis, h \in Horizons : GenerateForecast(k, h)
  \/ \E k \in SelectedKpis : DetectAnomalies(k, Ratio(2, 1))

SpecRegression == InitRegression /\ [][NextRegression]_vars

(***************************************************************************)
(* Anomaly detector                                                        *)
(***************************************************************************)
Detected == op = "detect_anomalies"

\* The series the last detect_anomalies call analysed.
AnalysedSeries == kpi_data[ret.kpi_key]

IsConstant(data) == \A i, j \in DOMAIN data : data[i] = data[j]

\* |x - mean| / std > t  for sample i of a series that is not constant, with
\* mean = S/N and std^2 = (N Q - S^2) / N^2.
ExceedsThreshold(data, i, t) ==
  LET N == Len(data)
      S == Sum(data)
      Q == Sum(Squares(data))
      dev2 == (N * data[i] - S) * (N * data[i] - S)
  IN t.num < 0 \/ dev2 * t.den * t.den > t.num * t.num * (N * Q - S * S)

C6_ConstantSeries ==
  (Detected /\ IsConstant(AnalysedSeries)) =>
    /\ ret.result.total_anomalies = 0
    /\ ret.result.days = <<>>
    /\ ret.result.anomaly_rate.num = 0

C6_Witness ==
  /\ Detected /\ AnalysedSeries = <<2, 2, 2>> /\ ret.result.threshold.num < 0
  /\ ret.result.total_anomalies = 0

\* C7: the z-score reported for a flagged sample x is (x - mean) / std with
\* its sign: negative for a flagged sample below the mean.
C7_SignedZScores ==
  Detected =>
    LET data == AnalysedSeries
        r == ret.result
    IN \A j \in DOMAIN r.days :
         RootEq(r.z_scores[j],
                Root(Len(data) * data[r.days[j]] - Sum(data), VarN2(data)))

\* A flagged sample below the mean.
C7_Witness ==
  /\ Detected
  /\ \E j \in DOMAIN ret.result.days :
        Len(AnalysedSeries) * AnalysedSeries[ret.result.days[j]] < Sum(AnalysedSeries)

(***************************************************************************)
(* Anomaly detection in binary64 on short series of two levels.            *)
(***************************************************************************)
ShortLen == 5

ShortLevels == {1000, 1100}

ShortSeries == UNION {[1..n -> ShortLevels] : n \in 1..ShortLen}

InitShort ==
  /\ kpi_keys = KPI_KEYS
  /\ kpi_thresholds = KPI_THRESHOLDS
  /\ kpi_data \in {AnalyticsStore(data) : data \in ShortSeries}
  /\ op = "init"
  /\ status_ret = None
  /\ ret = None
  /\ PageIdle

DetectAnomaliesBinary64(k, threshold) ==
  /\ ret' = [kpi_key |-> k, result |-> detect_anomalies_binary64(kpi_data, k, threshold)]
  /\ op' = "detect_anomalies"
  /\ UNCHANGED <<kpi_keys, kpi_thresholds, kpi_data, status_ret, page, session>>

NextShort ==
  \E threshold \in {Ratio(1, 1), Ratio(2, 1)} :
    DetectAnomaliesBinary64("energy_spend", threshold)

SpecShort == InitShort /\ [][NextShort]_vars

\* C23: the number of flagged anomalies is bounded by the series: for a
\* series of length N and a threshold t > 0, total_anomalies < N / t^2 (so
\* anomaly_rate < 0.25 at the default threshold 2.0), and a series of length
\* N <= 5 has no sample flagged at threshold 2.0.
C23_AnomaliesBounded ==
  Detected =>
    LET N == Len(AnalysedSeries)
        r == ret.result
        t == r.threshold
    IN /\ t.num > 0 => r.total_anomalies * t.num * t.num < N * t.den * t.den
       /\ t = Ratio(2, 1) => 4 * r.anomaly_rate.num < r.anomaly_rate.den
       /\ (N <= 5 /\ t = Ratio(2, 1)) => r.total_anomalies = 0

\* A series of five samples analysed at the default threshold.
C23_Witness ==
  /\ Detected /\ Len(AnalysedSeries) = 5 /\ ret.result.threshold = Ratio(2, 1)
  /\ \E i, j \in DOMAIN AnalysedSeries : AnalysedSeries[i] # AnalysedSeries[j]

(***************************************************************************)
(* Forecaster                                                              *)
(***************************************************************************)
Forecast == op = "generate_forecast"

\* The series the last generate_forecast call was given.
ForecastSeries == kpi_data[ret.kpi_key]

\* C11: for a series of length N >= 2 and a horizon h >= 1, generate_forecast
\* returns exactly h forecast values, h upper and h lower bounds;
\* forecast_days is N+1..N+h in order, historical_days is 1..N, and
\* upper_bound[i] >= forecast_values[i] >= lower_bound[i] for every i.
C11_ForecastShape ==
  (Forecast /\ Len(ForecastSeries) >= 2 /\ ret.forecast_days >= 1) =>
    LET N == Len(ForecastSeries)
        h == ret.forecast_days
        r == ret.result
    IN /\ ~Raised(r)
       /\ Len(r.forecast_values) = h /\ Len(r.upper_bound) = h /\ Len(r.lower_bound) = h
       /\ r.forecast_days = [i \in 1..h |-> N + i]
       /\ r.historical_days = [i \in 1..N |-> i]
       /\ \A i \in 1..h :
            /\ SurdGeZero(SurdLess(r.upper_bound[i], r.forecast_values[i]))
            /\ SurdGeZero(SurdMinus(r.forecast_values[i], r.lower_bound[i]))

\* A forecast over the default horizon with a band that is not zero.
C11_Witness ==
  /\ Forecast /\ Len(ForecastSeries) >= 2 /\ ret.forecast_days = 7
  /\ ~Raised(ret.result)
  /\ Len(ret.result.forecast_values) = 7
  /\ RootSign(ret.result.upper_bound[7]) > 0

\* The population variance of the residuals of the least-squares line through
\* (1, y1) .. (N, yN):  (Sxx Syy - Sxy^2) / (N Sxx), zero for a single point.
ResidualVariance(data) ==
  IF Len(data) < 2 THEN FracInt(0)
  ELSE Frac(VarN2(Arange1(Len(data))) * VarN2(data)
              - CovN2(Arange1(Len(data)), data) * CovN2(Arange1(Len(data)), data),
            Len(data) * Len(data) * VarN2(Arange1(Len(data))))

\* 1.96 sqrt(v)
BandOf(v) == Surd(FracInt(0), Frac(196, 100), v)

IsLinear(data) ==
  \A i \in DOMAIN data : i > 1 => data[i] - data[i - 1] = data[2] - data[1]

\* C12: upper_bound[i] - forecast_values[i] = forecast_values[i] - lower_bound[i]
\* = 1.96 times the population standard deviation of the residuals on the
\* historical points, for every forecast index i and every horizon; the band
\* is zero when the series is exactly linear in the day index.
C12_UniformBand ==
  (Forecast /\ ~Raised(ret.result)) =>
    LET r == ret.result
        band == BandOf(ResidualVariance(ForecastSeries))
    IN \A i \in DOMAIN r.forecast_values :
         /\ SurdEq(SurdLess(r.upper_bound[i], r.forecast_values[i]), band)
         /\ SurdEq(SurdMinus(r.forecast_values[i], r.lower_bound[i]), band)
         /\ IsLinear(ForecastSeries) =>
              /\ SurdEq(r.upper_bound[i], SurdOf(r.forecast_values[i]))
              /\ SurdEq(r.lower_bound[i], SurdOf(r.forecast_values[i]))

\* The band 1.96 sqrt(1/2) of the series 0, 2, 1 at both forecast points.
C12_Witness ==
  /\ Forecast /\ ForecastSeries = <<0, 2, 1>> /\ ret.forecast_days = 2
  /\ \A i \in 1..2 : /\ ret.result.upper_bound[i].c = Ratio(49, 25)
                     /\ ret.result.upper_bound[i].v = Ratio(1, 2)

\* C18: generate_forecast called with forecast_days <= 0 raises and returns
\* no record; never a record with empty forecast, upper and lower arrays.
C18_NonPositiveHorizonFails ==
  (Forecast /\ ret.forecast_days <= 0) => Raised(ret.result)

C18_Witness ==
  Forecast /\ ret.forecast_days = 0 /\ ret.result = Raise("ValueError")

(***************************************************************************)
(* Trend analyzer                                                          *)
(***************************************************************************)
Trended == op = "calculate_trend_analysis"

TrendSeries == kpi_data[ret.kpi_key]

\* The sign of the least-squares slope against days 1..N is that of
\* sum((2 i - N - 1) y_i).
SlopeNumerator(data) == Sum([i \in DOMAIN data |-> (2 * i - Len(data) - 1) * data[i]])

StrictlyIncreasing(data) == \A i \in DOMAIN data : i > 1 => data[i - 1] < data[i]

StrictlyDecreasing(data) == \A i \in DOMAIN data : i > 1 => data[i - 1] > data[i]

Described == op = "calculate_descriptive_statistics"

DescribedSeries == kpi_data[ret.kpi_key]

\* C15: for 1, 2, 3, 4, 5 the statistics are count 5, mean 3, median 3,
\* population variance 2 with std sqrt(2), min 1, max 5, range 4, q25 2,
\* q75 4 and iqr 2; for every series range = max - min, iqr = q75 - q25.
C15_DescriptiveStatistics ==
  Described =>
    LET r == ret.result
    IN /\ r.range = r.max - r.min
       /\ \A i \in DOMAIN DescribedSeries : r.min <= DescribedSeries[i] /\ DescribedSeries[i] <= r.max
       /\ FracEq(r.iqr, FracSub(r.q75, r.q25))
       /\ DescribedSeries = P3_SERIES =>
            /\ r.count = 5 /\ r.mean = FracInt(3) /\ r.median = FracInt(3)
            /\ r.var = FracInt(2) /\ r.std = SurdSqrt(FracInt(2))
            /\ r.min = 1 /\ r.max = 5 /\ r.range = 4
            /\ r.q25 = FracInt(2) /\ r.q75 = FracInt(4) /\ r.iqr = FracInt(2)

C15_Witness ==
  Described /\ DescribedSeries = P3_SERIES /\ ret.result.iqr = FracInt(2)

\* C16: for every non-empty series (N >= 2 for trend and forecast), constant
\* and zero-mean series included, the statistics, the anomalies, the trend
\* and the forecast are complete results whose numeric fields are all
\* defined numbers, and cv is 0 when the mean is 0.
C16_DefinedNumbers ==
  /\ Described =>
       LET r == ret.result
       IN /\ ~IsNaN(r.mean) /\ ~IsNaN(r.median) /\ ~IsNaN(r.var) /\ ~SurdIsNaN(r.std)
          /\ ~IsNaN(r.q25) /\ ~IsNaN(r.q75) /\ ~IsNaN(r.iqr)
          /\ ~r.skewness.nan /\ ~IsNaN(r.kurtosis) /\ ~SurdIsNaN(r.cv)
          /\ Sum(DescribedSeries) = 0 => r.cv = SurdOf(FracInt(0))
  /\ Detected =>
       /\ ~IsNaN(ret.result.anomaly_rate)
       /\ \A j \in DOMAIN ret.result.z_scores : ~ret.result.z_scores[j].nan
  /\ (Trended /\ Len(TrendSeries) >= 2) =>
       LET r == ret.result
       IN /\ ~IsNaN(r.linear_slope) /\ ~IsNaN(r.linear_r_squared)
          /\ ~r.linear_pvalue.nan /\ ~IsNaN(r.trend_strength)
  /\ (Forecast /\ Len(ForecastSeries) >= 2 /\ ret.forecast_days >= 1) =>
       LET r == ret.result
       IN /\ ~Raised(r)
          /\ ~IsNaN(r.r_squared) /\ ~IsNaN(r.slope) /\ ~IsNaN(r.intercept)
          /\ \A i \in DOMAIN r.forecast_values :
               /\ ~IsNaN(r.forecast_values[i])
               /\ ~SurdIsNaN(r.upper_bound[i]) /\ ~SurdIsNaN(r.lower_bound[i])

\* The statistics of a constant series.
C16_Witness ==
  Described /\ Len(DescribedSeries) >= 2 /\ IsConstant(DescribedSeries)

(***************************************************************************)
(* Correlation.  The stores: two series of 0/1 samples chosen freely, the  *)
(* other three derived from them, and two stores whose first two series    *)
(* correlate at exactly 0.5 and at exactly 0.7.                            *)
(***************************************************************************)
CorrSeries == [1..CorrLen -> {0, 1}]

CorrStore(a, b) ==
  [energy_spend     |-> a,
   carbon_intensity |-> b,
   oee              |-> [i \in DOMAIN a |-> 1 - a[i]],
   compressed_air   |-> [i \in DOMAIN a |-> a[i] + b[i]],
   water_usage      |-> [i \in DOMAIN a |-> i]]

BoundaryStores ==
  {CorrStore(<<0, 1, 1, 2>>, <<0, 1, 2, 1>>), CorrStore(<<2, 0, 1, 1>>, <<16, 2, 14, 0>>)}

\* Insertion orders of the store's keys: that of simulate_kpi, and two others.
KeyOrders ==
  {KPI_KEYS,
   <<"carbon_intensity", "energy_spend", "oee", "compressed_air", "water_usage">>,
   <<"water_usage", "compressed_air", "oee", "carbon_intensity", "energy_spend">>}

InitCorr ==
  /\ kpi_keys \in KeyOrders
  /\ kpi_thresholds = KPI_THRESHOLDS
  /\ kpi_data \in {CorrStore(a, b) : a, b \in CorrSeries} \cup BoundaryStores
  /\ op = "init"
  /\ status_ret = None
  /\ ret = None
  /\ PageIdle

PerformCorrelationAnalysis ==
  /\ ret' = perform_correlation_analysis(kpi_data, kpi_keys)
  /\ op' = "perform_correlation_analysis"
  /\ UNCHANGED <<kpi_keys, kpi_thresholds, kpi_data, status_ret, page, session>>

BuildCombinedAnalyticsView(selected_kpi) ==
  /\ ret' = build_combined_analytics_view(kpi_data, kpi_keys, selected_kpi)
  /\ op' = "build_combined_analytics_view"
  /\ UNCHANGED <<kpi_keys, kpi_thresholds, kpi_data, status_ret, page, session>>

NextCorr ==
  \/ PerformCorrelationAnalysis
  \/ \E k \in AnalysedKeys : BuildCombinedAnalyticsView(k)

SpecCorr == InitCorr /\ [][NextCorr]_vars

Correlated == op = "perform_correlation_analysis"

Viewed == op = "build_combined_analytics_view"

\* C8: the matrix is symmetric and has 1.0 on its diagonal, for every store,
\* also one that holds a constant series.
C8_SymmetricUnitDiagonal ==
  Correlated =>
    \A a, b \in KpiSet : RootEq(ret[a][b], ret[b][a]) /\ RootEq(ret[a][a], Root(1, 1))

\* A correlation matrix of a store that holds a constant series.
C8_Witness ==
  Correlated /\ \E k \in KpiSet : IsConstant(kpi_data[k])

\* r^2 of a reported value, compared with a ratio p/q >= 0:  |r| > p/q
AbsAbove(r, p, q) == ~r.nan /\ r.num * r.num * q * q > p * p * r.rad

\* The row of the view for the labels of keys k1, k2, if any.
RowsOf(rows, k1, k2) ==
  {n \in DOMAIN rows : rows[n].kpi1 = KPI_LABELS[k1] /\ rows[n].kpi2 = KPI_LABELS[k2]}

\* C21: the matrix is indexed by metric key: the entry [k1][k2] is the
\* Pearson correlation of store[k1] and store[k2], whatever the order in
\* which the keys were inserted into the store.
C21_IndexedByKey ==
  Correlated =>
    \A k1, k2 \in KpiSet : ret[k1][k2] = pearson(kpi_data[k1], kpi_data[k2])

\* A correlation matrix of a store whose keys are not in KPI_LABELS order.
C21_Witness ==
  Correlated /\ kpi_keys # KPI_KEYS

AbsAtLeast(a, b) == a.num * a.num * b.rad >= b.num * b.num * a.rad

\* C10: the rows shown (at most three) are the reportable pairs with the
\* largest |r|, strongest first.
C10_TopSortedByAbs ==
  Viewed =>
    LET rows == ret.strong_correlations
        shown == ret.key_correlations
    IN /\ \A m, n \in DOMAIN shown :
            m < n => AbsAtLeast(shown[m].correlation, shown[n].correlation)
       /\ \A m \in DOMAIN shown : \A n \in DOMAIN rows :
            n > Len(shown) => AbsAtLeast(shown[m].correlation, rows[n].correlation)

\* A view with more reportable pairs than rows shown.
C10_Witness ==
  Viewed /\ Len(ret.strong_correlations) > Len(ret.key_correlations)

(***************************************************************************)
(* Every operation on one store.  The stores hold KPI_DAYS samples of 0 or *)
(* 1 per metric, small enough for every analytics function; the calls that *)
(* take a metric key are made with a key of the store and with a key the   *)
(* store does not hold.                                                    *)
(***************************************************************************)
UNKNOWN_KPI == "unknown_kpi"

CallKeys == {"oee", UNKNOWN_KPI}

SmallStores == {CorrStore(a, a) : a \in [1..KPI_DAYS -> {0, 1}]}

InitStore ==
  /\ kpi_keys = KPI_KEYS
  /\ kpi_thresholds = KPI_THRESHOLDS
  /\ kpi_data \in SmallStores
  /\ op = "init"
  /\ status_ret = None
  /\ ret = None
  /\ PageIdle

NextStore ==
  \/ \E k \in CallKeys, idx \in {-1, 0} : CalculateKpiStatus(k, idx)
  \/ \E k \in CallKeys : CalculateDescriptiveStatistics(k)
  \/ \E k \in CallKeys : DetectAnomalies(k, Ratio(2, 1))
  \/ \E k \in CallKeys : CalculateTrendAnalysis(k)
  \/ \E k \in CallKeys : GenerateForecast(k, 7)
  \/ PerformCorrelationAnalysis
  \/ ExportKpiDataToCsv
  \/ ExportKpiDataToJson
  \/ ExportKpiStatusToJson
  \/ UpdateKpiCards
  \/ \E h \in {None, [x |-> 1]} : UpdateKpiCardsOnHover(h)
  \/ \E k \in CallKeys : UpdateTrendChart(k)

SpecStore == InitStore /\ [][NextStore]_vars

\* The analytics functions that take a metric key.
KeyedAnalytics ==
  {"calculate_descriptive_statistics", "detect_anomalies", "calculate_trend_analysis",
   "generate_forecast"}

\* C17: an engine operation (status classification, statistics, anomalies,
\* trend, forecast) called with a metric key that the store does not hold
\* signals a failure; none returns a normal-looking result such as 'normal'.
C17_UnknownKeyFails ==
  /\ (status_ret # None /\ status_ret.key \notin DOMAIN kpi_data) =>
       status_ret.status \notin {"normal", "warning", "critical"}
  /\ (op \in KeyedAnalytics /\ ret.kpi_key \notin DOMAIN kpi_data) => Raised(ret.result)

\* A classification of a key that the store does not hold.
C17_Witness ==
  status_ret # None /\ status_ret.key = UNKNOWN_KPI /\ UNKNOWN_KPI \notin DOMAIN kpi_data

\* C19: no call of the classifier, the four analytics functions, the
\* correlation function, the three exports, the card and hover callbacks or
\* make_trend_figure changes a sample of the store or a threshold.
C19_StoreReadOnly ==
  [][kpi_data' = kpi_data /\ kpi_thresholds' = kpi_thresholds]_vars

\* The trend chart of 'oee' shows 100 times the stored fractions, and the
\* store still holds the fractions.
C19_Witness ==
  /\ op = "update_trend_chart" /\ ret.selected_kpi = "oee"
  /\ \E i \in DOMAIN kpi_data["oee"] : kpi_data["oee"][i] # 0
  /\ ret.figure.y = Times100(kpi_data["oee"])
  /\ status_ret # None

(***************************************************************************)
(* Exports.  The export dialog's callback and the view-state snapshot on   *)
(* the dashboard's stores.                                                 *)
(***************************************************************************)
ExportData(confirm_clicks, export_format, export_options) ==
  LET r == export_data(confirm_clicks, export_format, export_options, kpi_data, days)
  IN /\ ret' = [confirm_clicks |-> confirm_clicks, export_format |-> export_format,
                export_options |-> export_options,
                download |-> r.download, btn_text |-> r.btn_text]
     /\ kpi_data' = r.kpi_data
     /\ op' = "export_data"
     /\ UNCHANGED <<kpi_keys, kpi_thresholds, status_ret, page, session>>

CreateShareableViewState(active_view, selected_assets, with_kpi_data, day_idx) ==
  /\ ret' = [day_idx |-> day_idx,
             view_state |-> create_shareable_view_state(active_view, selected_assets,
                                                        with_kpi_data, kpi_data, day_idx)]
  /\ op' = "create_shareable_view_state"
  /\ UNCHANGED <<kpi_keys, kpi_thresholds, kpi_data, status_ret, page, session>>

\* The values of the format dropdown and one other key of EXPORT_FORMATS.
ExportFormats == {"csv", "json", "png"}

ExportOptions == SUBSET {"kpi_data", "kpi_status"}

NextExport ==
  \/ \E c \in {0, 1}, f \in ExportFormats, o \in ExportOptions : ExportData(c, f, o)
  \/ \E v \in {"dashboard", "analytics"}, a \in {<<>>, <<"Pump 7">>}, w \in BOOLEAN,
        idx \in (-1)..(KPI_DAYS - 1) : CreateShareableViewState(v, a, w, idx)

SpecExport == Init /\ [][NextExport]_vars

\* The text of the value exported for metric k at index idx: 100 times the
\* stored fraction for 'oee', the stored value for every other metric.
Exported(k, idx) ==
  FloatRepr(IF k = "oee" THEN 100 * PyIndex(kpi_data[k], idx) ELSE PyIndex(kpi_data[k], idx))

Downloaded(export_format, export_option) ==
  /\ op = "export_data" /\ ret.download # no_update
  /\ ret.export_format = export_format /\ export_option \in ret.export_options

\* C20: on every export path (series CSV, series JSON, status JSON, status
\* CSV built from the status JSON, view-state snapshot) the exported value
\* of 'oee' is 100 times the stored fraction, converted once, and the
\* exported value of every other metric is the stored value.
C20_OeeConversion ==
  /\ Downloaded("csv", "kpi_data") =>
       \A k \in KpiSet : \A d \in 1..KPI_DAYS : ret.download[k][d] = Exported(k, d - 1)
  /\ (Downloaded("csv", "kpi_status") /\ "kpi_data" \notin ret.export_options) =>
       \A n \in DOMAIN KPI_KEYS :
         /\ ret.download[n].KPI = KPI_LABELS[KPI_KEYS[n]]
         /\ ret.download[n].Value = Exported(KPI_KEYS[n], -1)
  /\ Downloaded("json", "kpi_data") =>
       \A k \in KpiSet : \A d \in 1..KPI_DAYS :
         ret.download.kpi_data[d][k].value = Exported(k, d - 1)
  /\ (Downloaded("json", "kpi_status") /\ "kpi_data" \notin ret.export_options) =>
       \A k \in KpiSet : ret.download.kpi_status[k].value = Exported(k, -1)
  /\ (op = "create_shareable_view_state" /\ ret.view_state.kpi_snapshot # None) =>
       \A k \in KpiSet : ret.view_state.kpi_snapshot[k].value = Exported(k, ret.day_idx)

\* The status CSV of a store whose latest 'oee' sample is the fraction 0.65.
C20_Witness ==
  /\ Downloaded("csv", "kpi_status") /\ "kpi_data" \notin ret.export_options
  /\ PyIndex(kpi_data["oee"], -1) = 65
  /\ ret.download[3].Value = FloatRepr(6500)

(***************************************************************************)
(* Status classifier                                                       *)
(***************************************************************************)
\* The sample a classification read.
ClassifiedValue == PyIndex(kpi_data[status_ret.key], status_ret.idx)

Classified == status_ret # None

HigherIsWorse(v, W, C) ==
  IF v > C THEN "critical" ELSE IF v > W THEN "warning" ELSE "normal"

LowerIsWorse(v, W, C) ==
  IF v < C THEN "critical" ELSE IF v < W THEN "warning" ELSE "normal"

\* C1: a metric other than 'oee' with thresholds (W, C) is 'critical' when the
\* sample is above C, else 'warning' when it is above W, else 'normal'; the
\* comparisons are strict: a sample equal to W is 'normal', one equal to C
\* (W < C) is 'warning'.
C1_HigherIsWorse ==
  (Classified /\ status_ret.key \in DOMAIN KPI_THRESHOLDS /\ status_ret.key # "oee") =>
    LET W == KPI_THRESHOLDS[status_ret.key].warning
        C == KPI_THRESHOLDS[status_ret.key].critical
        v == ClassifiedValue
    IN /\ status_ret.status = HigherIsWorse(v, W, C)
       /\ (v = W => status_ret.status = "normal")
       /\ (v = C /\ W < C => status_ret.status = "warning")

C1_Witness ==
  /\ Classified /\ status_ret.key = "energy_spend"
  /\ ClassifiedValue = KPI_THRESHOLDS["energy_spend"].critical
  /\ status_ret.status = "warning"

\* C2: 'oee' (W > C) is 'critical' when the sample is below C, else 'warning'
\* when it is below W, else 'normal'; a sample equal to W is 'normal', one equal
\* to C is 'warning'; no other metric is classified by the lower-is-worse rule.
C2_LowerIsWorse ==
  Classified =>
    /\ status_ret.key = "oee" =>
          LET W == KPI_THRESHOLDS["oee"].warning
              C == KPI_THRESHOLDS["oee"].critical
              v == ClassifiedValue
          IN /\ W > C
             /\ status_ret.status = LowerIsWorse(v, W, C)
             /\ (v = W => status_ret.status = "normal")
             /\ (v = C => status_ret.status = "warning")
    /\ (status_ret.key \in DOMAIN KPI_THRESHOLDS /\ status_ret.key # "oee") =>
          LET W == KPI_THRESHOLDS[status_ret.key].warning
              C == KPI_THRESHOLDS[status_ret.key].critical
          IN (ClassifiedValue > W) => status_ret.status # "normal"

C2_Witness ==
  /\ Classified /\ status_ret.key = "oee"
  /\ ClassifiedValue = KPI_THRESHOLDS["oee"].critical
  /\ status_ret.status = "warning"

\* C3: a metric without configured thresholds is 'normal' for every value and
\* every day index.
C3_UnconfiguredIsNormal ==
  (Classified /\ status_ret.key \notin DOMAIN KPI_THRESHOLDS) =>
    status_ret.status = "normal"

C3_Witness ==
  /\ Classified /\ status_ret.key \notin DOMAIN KPI_THRESHOLDS
  /\ ClassifiedValue > KPI_THRESHOLDS["energy_spend"].critical
  /\ status_ret.idx = 0
  /\ status_ret.status = "normal"

\* C4: no hysteresis: whatever was called since (classification, cards, hover,
\* trend chart, exports, anomaly detection), the status a classification returned is the status
\* a classification of the same metric and day index returns now, and it is
\* the one the thresholds give for the sample at that index.
C4_NoHysteresis ==
  Classified =>
    /\ status_ret.status = calculate_kpi_status(kpi_data, status_ret.key, status_ret.idx)
    /\ status_ret.key \in DOMAIN KPI_THRESHOLDS =>
          LET W == KPI_THRESHOLDS[status_ret.key].warning
              C == KPI_THRESHOLDS[status_ret.key].critical
          IN status_ret.status =
               IF status_ret.key = "oee" THEN LowerIsWorse(ClassifiedValue, W, C)
               ELSE HigherIsWorse(ClassifiedValue, W, C)

\* A classification of 'oee' as critical, followed by an export.
C4_Witness ==
  /\ Classified /\ status_ret.key = "oee" /\ status_ret.status = "critical"
  /\ op = "export_kpi_data_to_csv"

(***************************************************************************)
(* Status export                                                           *)
(***************************************************************************)
StatusExported == op = "export_kpi_status_to_json"

\* C22: every record of the status export is self-consistent: the exported
\* thresholds applied to the exported value with the metric's direction rule
\* give the exported status, for 'oee' (exported as a percentage) as well.
C22_StatusExportConsistent ==
  StatusExported =>
    \A k \in KpiSet :
      LET e == ret.kpi_status[k]
      IN e.status =
           IF k = "oee" THEN LowerIsWorse(e.value, e.thresholds.warning, e.thresholds.critical)
           ELSE HigherIsWorse(e.value, e.thresholds.warning, e.thresholds.critical)

\* A status export of a store whose latest 'oee' sample is below the critical
\* fraction.
C22_Witness ==
  /\ StatusExported
  /\ PyIndex(kpi_data["oee"], -1) < KPI_THRESHOLDS["oee"].critical
  /\ ret.kpi_status["oee"].status = "critical"

(***************************************************************************)
(* The data layer behind a page whose callbacks are under study: the store *)
(* of the dashboard with every sample at its lowest level.                 *)
(***************************************************************************)
InitDataLayer ==
  /\ kpi_keys = StoreOrder
  /\ kpi_thresholds = KPI_THRESHOLDS
  /\ kpi_data = StoreOf([d \in 1..KPI_DAYS |-> 0], 0)
  /\ op = "init"
  /\ status_ret = None
  /\ ret = None
  /\ session = NoSessions

(***************************************************************************)
(* Sidebar: the two toggle buttons and the three callbacks behind them.    *)
(***************************************************************************)
MaxClicks == 4

SidebarCallbacks ==
  {"toggle_sidebar", "update_floating_button_visibility", "initialize_sidebar"}

SidebarToggles == {"sidebar-toggle.n_clicks", "floating-sidebar-toggle.n_clicks"}

InitSidebar ==
  /\ InitDataLayer
  /\ props = Layout
  /\ pending = InitialCalls(SidebarCallbacks)

ClickSidebarToggle(button) ==
  /\ props[button] < MaxClicks
  /\ UserSets(SidebarCallbacks, button, props[button] + 1)
  /\ UNCHANGED data_layer

ToggleSidebar ==
  \E e \in pending :
    /\ e.callback = "toggle_sidebar"
    /\ Respond(SidebarCallbacks, e,
               toggle_sidebar(props["sidebar-toggle.n_clicks"],
                              props["floating-sidebar-toggle.n_clicks"],
                              props["sidebar-collapsed.data"], e.triggered))
    /\ UNCHANGED data_layer

UpdateFloatingButtonVisibility ==
  \E e \in pending :
    /\ e.callback = "update_floating_button_visibility"
    /\ Respond(SidebarCallbacks, e,
               update_floating_button_visibility(props["sidebar-collapsed.data"]))
    /\ UNCHANGED data_layer

InitializeSidebar ==
  \E e \in pending :
    /\ e.callback = "initialize_sidebar"
    /\ Respond(SidebarCallbacks, e, initialize_sidebar(props["sidebar-collapsed.data"]))
    /\ UNCHANGED data_layer

NextSidebar ==
  \/ \E button \in SidebarToggles : ClickSidebarToggle(button)
  \/ ToggleSidebar
  \/ UpdateFloatingButtonVisibility
  \/ InitializeSidebar

SpecSidebar == InitSidebar /\ [][NextSidebar]_vars

\* The page has settled: every triggered callback has run.
Settled == pending = {}

SidebarClicks ==
  props["sidebar-toggle.n_clicks"] + props["floating-sidebar-toggle.n_clicks"]

MaxNavClicks == 2
MaxOpens == 2

\* An element is shown unless its style says display: none.
Displayed(style) == ~("display" \in DOMAIN style /\ style.display = "none")

\* ctx.triggered[0]['prop_id'].split('"')[3]: the id of the button in the
\* property id.
NavButtonOf(prop_id) ==
  CHOOSE b \in NavButtons : \E property \in {"n_clicks", "style"} :
    NavButtonProp(b, property) = prop_id

SectionOf ==
  ("geospatial" :> "geospatial-section.style")
  @@ ("kpi" :> "kpi-section.style")
  @@ ("3d" :> "garching-3d-section.style")
  @@ ("assets" :> "asset-section.style")

hidden_style == [display |-> "none"]
visible_style == [display |-> "block", marginTop |-> "18px"]

\* A variant that shows the section of the button and hides no other.
handle_sidebar_navigation_show_only(triggered) ==
  IF triggered = {} THEN NoUpdate
  ELSE LET button_id == NavButtonOf(TriggeredProp(triggered))
       IN (SectionOf[button_id] :> visible_style) @@ ("active-view.data" :> button_id)

handle_sidebar_navigation(triggered) ==
  IF triggered = {} THEN NoUpdate
  ELSE LET button_id == NavButtonOf(TriggeredProp(triggered))
       IN [p \in {SectionOf[b] : b \in NavButtons} |->
             IF p = SectionOf[button_id] THEN visible_style ELSE hidden_style]
          @@ ("active-view.data" :> button_id)

NavLevel == ("geospatial" :> 1) @@ ("kpi" :> 2) @@ ("3d" :> 2) @@ ("assets" :> 3)

update_active_button_styles(active_view, visibility_data) ==
  [p \in {NavButtonProp(b, "style") : b \in NavButtons} |->
     LET b == NavButtonOf(p)
         style == get_nav_button_style(active_view = b, NavLevel[b])
     IN IF b # "geospatial" /\ ~visibility_data[b]
        THEN WithStyle(style, [display |-> "none"])
        ELSE style]

\* isinstance(selected_part, dict) and selected_part.get("type") == "sphere"
IsSphereSelection(selected_part) ==
  "type" \in DOMAIN selected_part /\ selected_part.type = "sphere"

LevelStyle(display) == [display |-> display, marginTop |-> "8px"]

track_hierarchical_visibility(shopfloor_data, selected_part, visibility_data) ==
  LET opened == shopfloor_data # None
      sphere == IsSphereSelection(selected_part)
      new_visibility ==
        [k \in DOMAIN visibility_data |->
           IF (k \in {"kpi", "3d"} /\ opened) \/ (k = "assets" /\ sphere)
           THEN TRUE ELSE visibility_data[k]]
  IN ("view-visibility.data" :> new_visibility)
     @@ ("level-2-navigation.style" :> LevelStyle(IF opened THEN "block" ELSE "none"))
     @@ ("level-3-navigation.style" :> LevelStyle(IF sphere THEN "block" ELSE "none"))

show_garching_site(shopfloor_data) ==
  IF shopfloor_data # None
  THEN "garching-3d-container.children" :> "site_view"
  ELSE NoUpdate

\* What a click on the sphere and a click on the mesh report.
SphereClick == [representationId |-> "vtk-sphere-repr"]
MeshClick == [representationId |-> "vtk-mesh-repr"]

handle_garching_click(click_info, shopfloor_data, triggered) ==
  IF triggered = {} THEN NoUpdate
  ELSE IF TriggeredProp(triggered) = "clicked-shopfloor.data"
  THEN "garching-selected-part.data" :> None
  ELSE IF click_info # None
  THEN IF click_info.representationId = "vtk-sphere-repr"
       THEN "garching-selected-part.data" :> [type |-> "sphere", data |-> click_info]
       ELSE "garching-selected-part.data" :> click_info
  ELSE NoUpdate

\* The value "shopfloor-1" of the clicked-shopfloor store.
Shopfloor1 == [shopfloor |-> "shopfloor-1"]

handle_shopfloor_click(shop1_clicks, triggered) ==
  IF triggered = {} THEN "clicked-shopfloor.data" :> None
  ELSE "clicked-shopfloor.data" :> Shopfloor1

HandleSidebarNavigation(scope) ==
  \E e \in pending :
    /\ e.callback = "handle_sidebar_navigation"
    /\ Respond(scope, e, handle_sidebar_navigation(e.triggered))
    /\ UNCHANGED data_layer

UpdateActiveButtonStyles(scope) ==
  \E e \in pending :
    /\ e.callback = "update_active_button_styles"
    /\ Respond(scope, e,
               update_active_button_styles(props["active-view.data"],
                                           props["view-visibility.data"]))
    /\ UNCHANGED data_layer

TrackHierarchicalVisibility(scope) ==
  \E e \in pending :
    /\ e.callback = "track_hierarchical_visibility"
    /\ Respond(scope, e,
               track_hierarchical_visibility(props["clicked-shopfloor.data"],
                                             props["garching-selected-part.data"],
                                             props["view-visibility.data"]))
    /\ UNCHANGED data_layer

\* The properties of the components that build_garching_site_view creates:
\* a new view starts from their built values.
ViewProps ==
  {ButtonProp(which) : which \in ViewerButtons}
  \cup {"vtk-mesh-repr.actor", "vtk-sphere-repr.actor", "vtk-garching-view.clickInfo",
        "vtk-sphere-src.state", "vtk-sphere-repr.property"}

\* The container takes the view that show_garching_site returns; the
\* callbacks that have an Input in the new view and are not prevented from
\* an initial call are called, with nothing triggered.
ShowGarchingSite(scope) ==
  \E e \in pending :
    /\ e.callback = "show_garching_site"
    /\ LET outputs == show_garching_site(props["clicked-shopfloor.data"])
           built == IF DOMAIN outputs = {} THEN {} ELSE ViewProps
       IN /\ props' = [p \in DOMAIN props |->
                         IF p \in DOMAIN outputs THEN outputs[p]
                         ELSE IF p \in built THEN Layout[p] ELSE props[p]]
          /\ pending' = (pending \ {e})
                           \cup Triggered(scope, DOMAIN outputs)
                           \cup {[callback |-> c, triggered |-> {}] :
                                   c \in {s \in scope : /\ Callbacks[s].initial_call
                                                         /\ Callbacks[s].inputs \cap built # {}}}
    /\ UNCHANGED data_layer

HandleGarchingClick(scope) ==
  \E e \in pending :
    /\ e.callback = "handle_garching_click"
    /\ Respond(scope, e,
               handle_garching_click(props["vtk-garching-view.clickInfo"],
                                     props["clicked-shopfloor.data"], e.triggered))
    /\ UNCHANGED data_layer

HandleShopfloorClick(scope) ==
  \E e \in pending :
    /\ e.callback = "handle_shopfloor_click"
    /\ Respond(scope, e,
               handle_shopfloor_click(props["shopfloor-1-button.n_clicks"], e.triggered))
    /\ UNCHANGED data_layer

\* The container of each navigation button; the first button has none.
NavContainer == ("kpi" :> "level-2-navigation.style")
                @@ ("3d" :> "level-2-navigation.style")
                @@ ("assets" :> "level-3-navigation.style")

\* The user clicks a navigation button that the page shows.
ClickNavButton(scope, b) ==
  /\ Displayed(props[NavButtonProp(b, "style")])
  /\ b \in DOMAIN NavContainer => Displayed(props[NavContainer[b]])
  /\ props[NavButtonProp(b, "n_clicks")] < MaxNavClicks
  /\ UserSets(scope, NavButtonProp(b, "n_clicks"), props[NavButtonProp(b, "n_clicks")] + 1)
  /\ UNCHANGED data_layer

\* The user clicks the button in the popup of the map.
ClickShopfloorButton(scope) ==
  /\ Displayed(props["geospatial-section.style"])
  /\ props["shopfloor-1-button.n_clicks"] < MaxOpens
  /\ UserSets(scope, "shopfloor-1-button.n_clicks", props["shopfloor-1-button.n_clicks"] + 1)
  /\ UNCHANGED data_layer

\* The user clicks a part of the site view.
Click3DPart(scope, click_info) ==
  /\ Displayed(props["garching-3d-section.style"])
  /\ props["garching-3d-container.children"] = "site_view"
  /\ UserSets(scope, "vtk-garching-view.clickInfo", click_info)
  /\ UNCHANGED data_layer

NavCallbacks ==
  {"handle_sidebar_navigation", "update_active_button_styles",
   "track_hierarchical_visibility", "show_garching_site", "handle_garching_click",
   "handle_shopfloor_click"}

InitNav ==
  /\ InitDataLayer
  /\ props = Layout
  /\ pending = InitialCalls(NavCallbacks)

NextNav ==
  \/ \E b \in NavButtons : ClickNavButton(NavCallbacks, b)
  \/ ClickShopfloorButton(NavCallbacks)
  \/ \E click_info \in {SphereClick, MeshClick} : Click3DPart(NavCallbacks, click_info)
  \/ HandleSidebarNavigation(NavCallbacks)
  \/ UpdateActiveButtonStyles(NavCallbacks)
  \/ TrackHierarchicalVisibility(NavCallbacks)
  \/ ShowGarchingSite(NavCallbacks)
  \/ HandleGarchingClick(NavCallbacks)
  \/ HandleShopfloorClick(NavCallbacks)

SpecNav == InitNav /\ [][NextNav]_vars

DisplayedSections == {b \in NavButtons : Displayed(props[SectionOf[b]])}

StyledActive == {b \in NavButtons : props[NavButtonProp(b, "style")].background = SIEMENS_ACCENT}

\* What a click on a navigation button may change: the click counts, the
\* styles of the sections, the active view and the styles of the buttons.
NavigationProps ==
  {NavButtonProp(b, "n_clicks") : b \in NavButtons}
  \cup {NavButtonProp(b, "style") : b \in NavButtons}
  \cup {SectionOf[b] : b \in NavButtons}
  \cup {"active-view.data"}

NavigationStep ==
  \/ \E b \in NavButtons : ClickNavButton(NavCallbacks, b)
  \/ HandleSidebarNavigation(NavCallbacks)
  \/ \E e \in pending :
       /\ e = [callback |-> "update_active_button_styles", triggered |-> {"active-view.data"}]
       /\ pending' = pending \ {e}

OneSectionDisplayed ==
  Settled =>
    /\ DisplayedSections = {props["active-view.data"]}
    /\ StyledActive = {props["active-view.data"]}

NavigationFrame ==
  NavigationStep =>
    /\ \A p \in DOMAIN props \ NavigationProps : props'[p] = props[p]
    /\ \A b \in NavButtons :
         props'[NavButtonProp(b, "style")].display = props[NavButtonProp(b, "style")].display

C27_HierarchyConsistent ==
  Settled =>
    LET visibility == props["view-visibility.data"]
        level2 == Displayed(props["level-2-navigation.style"])
        level3 == Displayed(props["level-3-navigation.style"])
    IN /\ level2 <=> (visibility["kpi"] /\ visibility["3d"])
       /\ level3 <=> visibility["assets"]
       /\ level3 => level2

\* The sphere is selected and both levels are displayed.
C27_Witness ==
  /\ Settled
  /\ IsSphereSelection(props["garching-selected-part.data"])
  /\ props["view-visibility.data"]["assets"]
  /\ Displayed(props["level-2-navigation.style"])
  /\ Displayed(props["level-3-navigation.style"])

(***************************************************************************)
(* 3D viewer: callbacks.init_bounds and callbacks.viewer_controls.         *)
(* Lengths are in hundredths of the unit of the mesh, angles in degrees.   *)
(***************************************************************************)
MaxViewerClicks == 3

\* The extents of the mesh along x, y and z: m.bounds of the loaded mesh.
MeshExtent == [sx |-> 3, sy |-> 5, sz |-> 7]

init_bounds(shopfloor_data) ==
  IF shopfloor_data # None
  THEN "garching-bounds.data" :> MeshExtent
  ELSE NoUpdate

\* A Python value that is a list, and one that is a number.
List(items) == [list |-> items]
Number(x) == [number |-> x]
IsList(v) == "list" \in DOMAIN v

\* control_map[which](): the pair (new_pos, new_ori).
control_map(which, pos, ori, step_x, step_y, step_z) ==
  CASE which = "btn-pan-up" -> <<Number(pos[2] - step_y), List(ori)>>
    [] which = "btn-pan-down" -> <<Number(pos[2] + step_y), List(ori)>>
    [] which = "btn-pan-left" -> <<Number(pos[1] + step_x), List(ori)>>
    [] which = "btn-pan-right" -> <<Number(pos[1] - step_x), List(ori)>>
    [] which = "btn-zoom-in" -> <<Number(pos[3] + step_z), List(ori)>>
    [] which = "btn-zoom-out" -> <<Number(pos[3] - step_z), List(ori)>>
    [] which = "btn-center" -> <<List(<<0, 0, 0>>), List(<<0, 0, 0>>)>>
    [] which = "btn-rot-left" -> <<List(pos), Number(ori[3] + 12)>>
    [] which = "btn-rot-right" -> <<List(pos), Number(ori[3] - 12)>>

\* The id of the component in 'btn-pan-up.n_clicks'.
ViewerButtonOf(prop_id) == CHOOSE which \in ViewerButtons : ButtonProp(which) = prop_id

viewer_controls(actor, bounds, triggered) ==
  IF triggered = {} \/ bounds = None THEN NoUpdate
  ELSE LET which == ViewerButtonOf(TriggeredProp(triggered))
           pos == actor.position
           ori == actor.orientation
           step_x == 2 * bounds.sx
           step_y == 2 * bounds.sy
           step_z == bounds.sz
           new == control_map(which, pos, ori, step_x, step_y, step_z)
           new_pos == new[1]
           new_ori == new[2]
           new_actor == [position |-> IF IsList(new_pos) THEN new_pos.list ELSE pos,
                         orientation |-> IF IsList(new_ori) THEN new_ori.list
                                         ELSE [ori EXCEPT ![3] = new_ori.number]]
       IN ("vtk-mesh-repr.actor" :> new_actor) @@ ("vtk-sphere-repr.actor" :> new_actor)

InitBounds(scope) ==
  \E e \in pending :
    /\ e.callback = "init_bounds"
    /\ Respond(scope, e, init_bounds(props["clicked-shopfloor.data"]))
    /\ UNCHANGED data_layer

ViewerControls(scope) ==
  \E e \in pending :
    /\ e.callback = "viewer_controls"
    /\ Respond(scope, e,
               viewer_controls(props["vtk-mesh-repr.actor"], props["garching-bounds.data"],
                               e.triggered))
    /\ UNCHANGED data_layer

RECURSIVE SumOver(_, _)
SumOver(f, S) ==
  IF S = {} THEN 0 ELSE LET x == CHOOSE y \in S : TRUE IN f[x] + SumOver(f, S \ {x})

ViewerClicks == SumOver([which \in ViewerButtons |-> props[ButtonProp(which)]], ViewerButtons)

\* The user clicks one of the overlay buttons of the site view.
ClickViewerButton(scope, which) ==
  /\ props["garching-3d-container.children"] = "site_view"
  /\ ViewerClicks < MaxViewerClicks
  /\ UserSets(scope, ButtonProp(which), props[ButtonProp(which)] + 1)
  /\ UNCHANGED data_layer

ViewerCallbacks ==
  {"handle_shopfloor_click", "show_garching_site", "init_bounds", "viewer_controls"}

InitViewer ==
  /\ InitDataLayer
  /\ props = Layout
  /\ pending = InitialCalls(ViewerCallbacks)

NextViewer ==
  \/ ClickShopfloorButton(ViewerCallbacks)
  \/ \E which \in ViewerButtons : ClickViewerButton(ViewerCallbacks, which)
  \/ HandleShopfloorClick(ViewerCallbacks)
  \/ ShowGarchingSite(ViewerCallbacks)
  \/ InitBounds(ViewerCallbacks)
  \/ ViewerControls(ViewerCallbacks)

SpecViewer == InitViewer /\ [][NextViewer]_vars

\* The actor that a click of the button which is to give, from the actor
\* before it: one step along the axis of the button, 12 degrees about z, or
\* the origin.
ExpectedActor(which, actor, bounds) ==
  LET pos == actor.position
      ori == actor.orientation
  IN CASE which = "btn-pan-up" ->
            [actor EXCEPT !.position = [pos EXCEPT ![2] = pos[2] - 2 * bounds.sy]]
       [] which = "btn-pan-down" ->
            [actor EXCEPT !.position = [pos EXCEPT ![2] = pos[2] + 2 * bounds.sy]]
       [] which = "btn-pan-left" ->
            [actor EXCEPT !.position = [pos EXCEPT ![1] = pos[1] + 2 * bounds.sx]]
       [] which = "btn-pan-right" ->
            [actor EXCEPT !.position = [pos EXCEPT ![1] = pos[1] - 2 * bounds.sx]]
       [] which = "btn-zoom-in" ->
            [actor EXCEPT !.position = [pos EXCEPT ![3] = pos[3] + bounds.sz]]
       [] which = "btn-zoom-out" ->
            [actor EXCEPT !.position = [pos EXCEPT ![3] = pos[3] - bounds.sz]]
       [] which = "btn-center" ->
            [position |-> <<0, 0, 0>>, orientation |-> <<0, 0, 0>>]
       [] which = "btn-rot-left" ->
            [actor EXCEPT !.orientation = [ori EXCEPT ![3] = ori[3] + 12]]
       [] which = "btn-rot-right" ->
            [actor EXCEPT !.orientation = [ori EXCEPT ![3] = ori[3] - 12]]

ControlsApplied ==
  (ViewerControls(ViewerCallbacks) /\ props["garching-bounds.data"] # None) =>
    \E e \in pending :
      /\ e.callback = "viewer_controls"
      /\ props'["vtk-mesh-repr.actor"] =
           ExpectedActor(ViewerButtonOf(TriggeredProp(e.triggered)),
                         props["vtk-mesh-repr.actor"], props["garching-bounds.data"])
      /\ props'["vtk-sphere-repr.actor"] = props'["vtk-mesh-repr.actor"]

\* C24: with the bounds of the mesh initialised, the handling of a click on
\* a pan or zoom button moves the actor by one step along the axis of the
\* button (2% of the x or y extent, 1% of the z extent) and leaves the rest of
\* the position and the orientation as they were; rotate left/right changes
\* only orientation[2], by +12/-12; center resets position and orientation to
\* zero; the sphere actor gets the actor of the mesh.
C24_ViewerControls == [][ControlsApplied]_vars

\* A pan, a rotation and a centering have been handled.
C24_Witness ==
  /\ Settled
  /\ props["garching-bounds.data"] = MeshExtent
  /\ props[ButtonProp("btn-pan-up")] = 1
  /\ props[ButtonProp("btn-rot-left")] = 2
  /\ props["vtk-mesh-repr.actor"].orientation = <<0, 0, 24>>
  /\ props["vtk-sphere-repr.actor"].orientation = <<0, 0, 24>>

(***************************************************************************)
(* Sphere animation: callbacks.trigger_sphere_anim, animate_sphere and     *)
(* stop_anim_after, driven by the dcc.Interval "sphere-anim".  The radius  *)
(* is a binary64 number.  The Interval ticks whether or not callbacks are  *)
(* in flight, so a call of animate_sphere or stop_anim_after carries the   *)
(* Input and State values that the page had when the call was made, and a  *)
(* newer call of a callback replaces the call of it still in flight.       *)
(***************************************************************************)
SPHERE_ANIMATION_FRAMES == 12
MaxIntervals == 13

trigger_sphere_anim(selection) ==
  IF IsSphereSelection(selection)
  THEN ("sphere-anim.disabled" :> FALSE) @@ ("sphere-anim.n_intervals" :> 0)
  ELSE NoUpdate

\* max(0, min(int(n), total_frames))
Clamp(n, total_frames) ==
  IF n < 0 THEN 0 ELSE IF n > total_frames THEN total_frames ELSE n

\* float(state.get("baseRadius", state.get("radius", 0.1)))
BaseRadiusOf(state) ==
  IF "baseRadius" \in DOMAIN state THEN state.baseRadius
  ELSE IF "radius" \in DOMAIN state THEN state.radius
  ELSE FDiv(FromInt(1), FromInt(10))

\* The scale of the frame t: up to max_scale = 1.30 over the first half of
\* the frames and back to 1.0 over the second.
max_scale == FDiv(FromInt(130), FromInt(100))

ScaleAt(t, total_frames) ==
  LET grow_frames == total_frames \div 2
      one == FromInt(1)
  IN IF t <= grow_frames
     THEN FAdd(one, FMul(FSub(max_scale, one), FDiv(FromInt(t), FromInt(grow_frames))))
     ELSE FSub(max_scale,
               FMul(FSub(max_scale, one),
                    FDiv(FromInt(t - grow_frames), FromInt(total_frames - grow_frames))))

\* The scales of the frames 0..SPHERE_ANIMATION_FRAMES, computed once: the
\* scale of the frame t is Scales[t + 1].
Scales ==
  Array([i \in 1..(SPHERE_ANIMATION_FRAMES + 1) |-> ScaleAt(i - 1, SPHERE_ANIMATION_FRAMES)])

\* A variant that takes the current radius for the base radius.
animate_sphere_from_radius(n, state, disabled) ==
  IF disabled THEN NoUpdate
  ELSE LET t == Clamp(n, SPHERE_ANIMATION_FRAMES)
           radius == IF t >= SPHERE_ANIMATION_FRAMES THEN state.radius
                     ELSE FMul(state.radius, Scales[t + 1])
       IN ("vtk-sphere-src.state" :>
             [center |-> state.center, radius |-> radius, baseRadius |-> state.radius])
          @@ ("vtk-sphere-repr.property" :> [color |-> <<1, 0, 0>>, opacity |-> 1])

animate_sphere(n, state, disabled) ==
  IF disabled THEN NoUpdate
  ELSE LET base_r == BaseRadiusOf(state)
           total_frames == SPHERE_ANIMATION_FRAMES
           t == Clamp(n, total_frames)
           radius == IF t >= total_frames THEN base_r
                     ELSE FMul(base_r, Scales[t + 1])
       IN ("vtk-sphere-src.state" :>
             [center |-> state.center, radius |-> radius, baseRadius |-> base_r])
          @@ ("vtk-sphere-repr.property" :> [color |-> <<1, 0, 0>>, opacity |-> 1])

stop_anim_after(n, disabled) ==
  IF ~disabled /\ n >= SPHERE_ANIMATION_FRAMES
  THEN "sphere-anim.disabled" :> TRUE
  ELSE NoUpdate

\* The two callbacks that have the counter of the Interval as their Input.
IntervalCallbacks == {"animate_sphere", "stop_anim_after"}

\* The calls made when the counter changes on the page page_props.
IntervalCalls(page_props) ==
  {[callback |-> c,
    triggered |-> {"sphere-anim.n_intervals"},
    n |-> page_props["sphere-anim.n_intervals"],
    state |-> page_props["vtk-sphere-src.state"],
    disabled |-> page_props["sphere-anim.disabled"]] : c \in IntervalCallbacks}

Superseded == {e \in pending : e.callback \in IntervalCallbacks}

\* The Interval fires: it counts while it is not disabled.
Tick ==
  /\ ~props["sphere-anim.disabled"]
  /\ props["sphere-anim.n_intervals"] < MaxIntervals
  /\ props' = [props EXCEPT !["sphere-anim.n_intervals"] = @ + 1]
  /\ pending' = (pending \ Superseded) \cup IntervalCalls(props')
  /\ UNCHANGED data_layer

TriggerSphereAnim(scope) ==
  \E e \in pending :
    /\ e.callback = "trigger_sphere_anim"
    /\ LET outputs == trigger_sphere_anim(props["garching-selected-part.data"])
       IN /\ props' = [p \in DOMAIN props |->
                         IF p \in DOMAIN outputs THEN outputs[p] ELSE props[p]]
          /\ pending' = IF DOMAIN outputs = {}
                        THEN pending \ {e}
                        ELSE (pending \ ({e} \cup Superseded)) \cup IntervalCalls(props')
    /\ UNCHANGED data_layer

AnimateSphere ==
  \E e \in pending :
    /\ e.callback = "animate_sphere"
    /\ Respond({}, e, animate_sphere(e.n, e.state, e.disabled))
    /\ UNCHANGED data_layer

StopAnimAfter ==
  \E e \in pending :
    /\ e.callback = "stop_anim_after"
    /\ Respond({}, e, stop_anim_after(e.n, e.disabled))
    /\ UNCHANGED data_layer

AnimCallbacks == {"handle_garching_click", "trigger_sphere_anim"}

\* The page after the user has opened the shopfloor and gone to the 3D view.
SiteViewOpened ==
  LET tracked == track_hierarchical_visibility(Shopfloor1, None,
                                               Layout["view-visibility.data"])
  IN update_active_button_styles("3d", tracked["view-visibility.data"])
     @@ handle_sidebar_navigation({NavButtonProp("3d", "n_clicks")})
     @@ (NavButtonProp("3d", "n_clicks") :> 1)
     @@ init_bounds(Shopfloor1)
     @@ show_garching_site(Shopfloor1)
     @@ tracked
     @@ handle_shopfloor_click(1, {"shopfloor-1-button.n_clicks"})
     @@ ("shopfloor-1-button.n_clicks" :> 1)
     @@ Layout

InitAnim ==
  /\ InitDataLayer
  /\ props = SiteViewOpened
  /\ pending = {}

NextAnim ==
  \/ \E click_info \in {SphereClick, MeshClick} : Click3DPart(AnimCallbacks, click_info)
  \/ HandleGarchingClick(AnimCallbacks)
  \/ TriggerSphereAnim(AnimCallbacks)
  \/ Tick
  \/ AnimateSphere
  \/ StopAnimAfter

\* The timer of the browser keeps firing while the Interval is enabled, and
\* the server answers the calls of the callbacks that enable and disable
\* it.  Nothing is assumed about the answers to animate_sphere.
SpecAnim ==
  /\ InitAnim
  /\ [][NextAnim]_vars
  /\ WF_vars(Tick)
  /\ WF_vars(HandleGarchingClick(AnimCallbacks))
  /\ WF_vars(TriggerSphereAnim(AnimCallbacks))
  /\ WF_vars(StopAnimAfter)

SphereState == props["vtk-sphere-src.state"]

FLe(a, b) == ~FGt(a, b)

\* The selection of the sphere enables the Interval and resets its counter.
SelectionStartsAnimation ==
  (TriggerSphereAnim(AnimCallbacks)
     /\ IsSphereSelection(props["garching-selected-part.data"])) =>
    /\ ~props'["sphere-anim.disabled"]
    /\ props'["sphere-anim.n_intervals"] = 0

\* The radius is within [base, 1.30 * base] and the base is the built radius.
RadiusInRange ==
  LET base == BaseRadiusOf(SphereState)
  IN /\ base = SphereRadius
     /\ FLe(base, SphereState.radius)
     /\ FLe(SphereState.radius, FMul(max_scale, base))

\* The animation has run to its end: every call has been answered, the
\* Interval is disabled and its counter is at the last frame or beyond.
AnimationEnded ==
  /\ Settled
  /\ props["sphere-anim.disabled"]
  /\ props["sphere-anim.n_intervals"] >= SPHERE_ANIMATION_FRAMES

IndexPath ==
  <<"/">>

\* "/_dash-layout"
LayoutPath ==
  <<"/", "_", "d", "a", "s", "h", "-", "l", "a", "y", "o", "u", "t">>

\* "/_dash-dependencies"
DependenciesPath ==
  <<"/", "_", "d", "a", "s", "h", "-", "d", "e", "p", "e", "n", "d", "e", "n", "c", "i", "e", "s">>

\* "/_dash-update-component"
UpdateComponentPath ==
  <<"/", "_", "d", "a", "s", "h", "-", "u", "p", "d", "a", "t", "e", "-", "c", "o", "m", "p", "o", "n", "e", "n", "t">>

\* "/_dash-component-suites/dash/dcc/dash_core_components.js"
ComponentSuitesPath ==
  <<"/", "_", "d", "a", "s", "h", "-", "c", "o", "m", "p", "o", "n", "e", "n", "t", "-", "s", "u", "i", "t", "e", "s", "/", "d", "a", "s", "h", "/", "d", "c", "c", "/", "d", "a", "s", "h", "_", "c", "o", "r", "e", "_", "c", "o", "m", "p", "o", "n", "e", "n", "t", "s", ".", "j", "s">>

\* "/assets/style.css"
AssetsPath ==
  <<"/", "a", "s", "s", "e", "t", "s", "/", "s", "t", "y", "l", "e", ".", "c", "s", "s">>

\* The routes of the Dash server: the index page, the layout, the
\* callback graph, the callback endpoint, the bundles of the component
\* libraries and the files under assets/.
Paths ==
  {IndexPath, LayoutPath, DependenciesPath, UpdateComponentPath, ComponentSuitesPath,
   AssetsPath}

ADMIN_PASSWORD == "admin-password"

Passwords == {ADMIN_PASSWORD, "guess"}

\* request.authorization: None, or a username and a password.
Authorizations == {None} \cup [username : {"user"}, password : Passwords]

\* path.startswith(prefix)
StartsWith(path, prefix) ==
  Len(path) >= Len(prefix) /\ SubSeq(path, 1, Len(prefix)) = prefix

check_auth(username, password) == password = ADMIN_PASSWORD

\* authenticate(): the 401 response.
authenticate == [status |-> 401, authenticated |-> FALSE]

\* require_auth: the response that stops the request (None lets it through)
\* and the mark that the session has after it.
require_auth(path, authenticated, auth) ==
  IF StartsWith(path, <<"/", "_", "d", "a", "s", "h">>)
       \/ StartsWith(path, <<"/", "a", "s", "s", "e", "t", "s">>)
  THEN [response |-> None, authenticated |-> authenticated]
  ELSE IF authenticated
  THEN [response |-> None, authenticated |-> authenticated]
  ELSE IF auth # None /\ check_auth(auth.username, auth.password)
  THEN [response |-> None, authenticated |-> TRUE]
  ELSE [response |-> authenticate, authenticated |-> authenticated]

\* A client sends a request; the route answers it (200) unless the hook has
\* answered before.  ret records the request and the status of the answer.
Request(client, path, auth) ==
  LET hook == require_auth(path, session[client], auth)
  IN /\ op' = "request"
     /\ ret' = [client |-> client,
                path |-> path,
                auth |-> auth,
                authenticated |-> session[client],
                status |-> IF hook.response = None THEN 200 ELSE hook.response.status]
     /\ session' = [session EXCEPT ![client] = hook.authenticated]
     /\ UNCHANGED <<kpi_keys, kpi_thresholds, kpi_data, status_ret, page>>

InitAuth ==
  /\ InitDataLayer
  /\ PageIdle

NextAuth == \E client \in Clients, path \in Paths, auth \in Authorizations :
              Request(client, path, auth)

SpecAuth == InitAuth /\ [][NextAuth]_vars

\* The static assets: the files under assets/ and the bundles of the
\* component libraries.
IsStaticAsset(path) == path \in {AssetsPath, ComponentSuitesPath}

\* The request carried the password.
HasPassword(auth) == auth # None /\ auth.password = ADMIN_PASSWORD

\* C29: a request for anything but a static asset is served only if the
\* session of the client was marked authenticated before it or the request
\* carries the password, which then marks the session; any other such request
\* gets a 401, so that the callback endpoint is out of reach of a client that
\* has not authenticated.
C29_RoutesProtected ==
  (op = "request" /\ ~IsStaticAsset(ret.path)) =>
    /\ ret.status = 200 <=> (ret.authenticated \/ HasPassword(ret.auth))
    /\ ret.status # 200 => ret.status = 401
    /\ HasPassword(ret.auth) => session[ret.client]

\* A client has authenticated on the index page and has then been served the
\* callback endpoint on its session.
C29_Witness ==
  /\ op = "request"
  /\ ret.path = UpdateComponentPath
  /\ ret.authenticated
  /\ ret.auth = None
  /\ ret.status = 200

(***************************************************************************)
(* Export dialog: callbacks.toggle_export_modal and callbacks.export_data  *)
(* on the page, for the stores that register_callbacks may be given: the   *)
(* store of the dashboard and a store that lacks a metric.                 *)
(***************************************************************************)
MaxExportClicks == 2

toggle_export_modal(export_btn, cancel_btn, confirm_btn, triggered) ==
  IF triggered = {} THEN "export-modal.style" :> [display |-> "none"]
  ELSE IF TriggeredProp(triggered) = "export-data-btn.n_clicks"
  THEN "export-modal.style" :> [display |-> "block"]
  ELSE "export-modal.style" :> [display |-> "none"]

\* The value of the format dropdown after it has been cleared (None): a value
\* that equals no format.
DropdownCleared == ""

loading_spinner == [children |-> "hourglass", fontSize |-> "16px"]

\* What the page gets from the tuple that export_data returns; no_update
\* leaves a property as it is, and the button text is no_update only in the
\* tuple returned for no click or no option.
ExportDataOutputs(confirm_clicks, export_options, r) ==
  IF confirm_clicks = 0 \/ export_options = {} THEN NoUpdate
  ELSE (IF r.download = no_update THEN NoUpdate ELSE "download-data.data" :> r.download)
       @@ ("export-btn-text.children" :> r.btn_text)
       @@ ("export-loading.children" :> loading_spinner)
       @@ ("export-loading.style" :> [display |-> "none"])

ExportButtons == {"export-data-btn.n_clicks", "export-cancel-btn.n_clicks",
                  "export-confirm-btn.n_clicks"}

ExportCallbacks == {"toggle_export_modal", "export_data"}

\* The user clicks the export button, or a button of the dialog that is open.
ClickExportButton(button) ==
  /\ button # "export-data-btn.n_clicks" => Displayed(props["export-modal.style"])
  /\ props[button] < MaxExportClicks
  /\ UserSets(ExportCallbacks, button, props[button] + 1)
  /\ UNCHANGED data_layer

\* The user picks a format or clears the dropdown of the open dialog.
SelectExportFormat(value) ==
  /\ Displayed(props["export-modal.style"])
  /\ UserSets(ExportCallbacks, "export-format-dropdown.value", value)
  /\ UNCHANGED data_layer

\* The user ticks or unticks boxes of the open dialog.
SelectExportOptions(value) ==
  /\ Displayed(props["export-modal.style"])
  /\ UserSets(ExportCallbacks, "export-data-checklist.value", value)
  /\ UNCHANGED data_layer

ToggleExportModal ==
  \E e \in pending :
    /\ e.callback = "toggle_export_modal"
    /\ Respond(ExportCallbacks, e,
               toggle_export_modal(props["export-data-btn.n_clicks"],
                                   props["export-cancel-btn.n_clicks"],
                                   props["export-confirm-btn.n_clicks"], e.triggered))
    /\ UNCHANGED data_layer

\* The call of export_data; ret records its arguments and what it returned.
ExportDataOnPage ==
  \E e \in pending :
    /\ e.callback = "export_data"
    /\ LET confirm_clicks == props["export-confirm-btn.n_clicks"]
           export_format == props["export-format-dropdown.value"]
           export_options == props["export-data-checklist.value"]
           r == export_data(confirm_clicks, export_format, export_options, kpi_data, days)
       IN /\ Respond(ExportCallbacks, e,
                     ExportDataOutputs(confirm_clicks, export_options, r))
          /\ ret' = [confirm_clicks |-> confirm_clicks, export_format |-> export_format,
                     export_options |-> export_options,
                     download |-> r.download, btn_text |-> r.btn_text]
          /\ kpi_data' = r.kpi_data
    /\ op' = "export_data"
    /\ UNCHANGED <<kpi_keys, kpi_thresholds, status_ret, session>>

\* A store without the series of one metric.
Without(store, k) == [j \in DOMAIN store \ {k} |-> store[j]]

ExportStores ==
  LET store == StoreOf([d \in 1..KPI_DAYS |-> d % 4], 1)
  IN {store, Without(store, "water_usage")}

InitExportModal ==
  /\ kpi_data \in ExportStores
  /\ kpi_keys = SelectSeq(StoreOrder, LAMBDA k : k \in DOMAIN kpi_data)
  /\ kpi_thresholds = KPI_THRESHOLDS
  /\ op = "init"
  /\ status_ret = None
  /\ ret = None
  /\ session = NoSessions
  /\ props = Layout
  /\ pending = InitialCalls(ExportCallbacks)

NextExportModal ==
  \/ \E button \in ExportButtons : ClickExportButton(button)
  \/ \E value \in {"csv", "json", DropdownCleared} : SelectExportFormat(value)
  \/ \E value \in ExportOptions : SelectExportOptions(value)
  \/ ToggleExportModal
  \/ ExportDataOnPage

SpecExportModal == InitExportModal /\ [][NextExportModal]_vars

\* The file of one format for one option, from the export functions of
\* data_loader.
ExportFile(export_format, option) ==
  IF export_format = "csv" /\ option = "kpi_data"
  THEN SeriesToCsv(export_kpi_data_to_csv(kpi_data, days).content)
  ELSE IF export_format = "csv"
  THEN StatusCsvRows(JsonLoadsStatus(JsonDumpsStatus(
                       export_kpi_status_to_json(kpi_data, -1).content)))
  ELSE IF option = "kpi_data"
  THEN JsonDumpsSeries(export_kpi_data_to_json(kpi_data, days).content)
  ELSE JsonDumpsStatus(export_kpi_status_to_json(kpi_data, -1).content)

\* What the last call of export_data returned, against its arguments and the
\* store: nothing for no options; 'Export Failed' and no download when the
\* export raised; a download of the series, else of the status, in the
\* format asked for; 'No data selected' and no download otherwise.
ExportAllOrNothing ==
  op = "export_data" =>
    LET selected == ret.export_options \cap {"kpi_data", "kpi_status"}
        valid == ret.export_format \in {"csv", "json"} /\ selected # {}
        option == IF "kpi_data" \in selected THEN "kpi_data" ELSE "kpi_status"
    IN /\ ret.download # no_update <=> (valid /\ ~ExportRaises(kpi_data))
       /\ ret.export_options = {} => ret.btn_text = no_update
       /\ (ret.export_options # {} /\ ~valid) => ret.btn_text = "No data selected"
       /\ (valid /\ ExportRaises(kpi_data)) => ret.btn_text = "Export Failed"
       /\ (valid /\ ~ExportRaises(kpi_data)) =>
            /\ ret.download = ExportFile(ret.export_format, option)
            /\ ret.btn_text = IF ret.export_format = "csv" THEN "CSV Export Complete!"
                              ELSE "JSON Export Complete!"
       /\ ret.download # no_update => props["download-data.data"] = ret.download

\* The dialog is shown by a click on the export button and hidden by a click
\* on either of its own buttons, and nothing else shows or hides it.
ModalFollowsButtons ==
  /\ ToggleExportModal =>
       \E e \in pending :
         /\ e.callback = "toggle_export_modal"
         /\ Displayed(props'["export-modal.style"])
              <=> e.triggered = {"export-data-btn.n_clicks"}
  /\ ~ToggleExportModal => props'["export-modal.style"] = props["export-modal.style"]

\* C30: a call of export_data gives a download only for the format 'csv' or
\* 'json' with 'kpi_data' or 'kpi_status' selected (the series when both are),
\* updates nothing when no option is selected, reports 'No data selected'
\* without a download for any other format or selection, and reports 'Export
\* Failed' without a download when the export raises; the export dialog is
\* displayed iff the last of its three buttons to be handled was the export
\* button.
C30_ExportAllOrNothing ==
  /\ []ExportAllOrNothing
  /\ [](props["export-data-btn.n_clicks"] = 0 => ~Displayed(props["export-modal.style"]))
  /\ [][ModalFollowsButtons]_vars

\* A confirmed export has failed on the store that lacks a metric, and the
\* dialog is closed.
C30_Witness ==
  /\ Settled
  /\ op = "export_data"
  /\ ExportRaises(kpi_data)
  /\ ret.btn_text = "Export Failed"
  /\ props["export-btn-text.children"] = "Export Failed"
  /\ ~Displayed(props["export-modal.style"])

====
